---- MODULE Spec2Model ----
(***************************************************************************)
(* A model of the deductive sudoku solver of madrury/sudoku-solver         *)
(* (package src/sudoku): the GameBoard / MarkedBoard data model, the seven *)
(* move kinds with their search and compute_marks algorithms, the move     *)
(* serialisation mixin, and the Solver.solve loop.                         *)
(*                                                                         *)
(* Python values are modelled as follows.  A board is a function from      *)
(* coordinates <<i, j>> (0-based, as in the code) to a digit (0 stands for *)
(* None) or to a set of marks.  A move object is a record holding its      *)
(* class name in the field "class" and its attributes (__dict__) in the    *)
(* other fields.  Attributes whose Python type matters for equality or for *)
(* JSON encoding (tuples, lists, int-or-tuple unions) are tagged with      *)
(* their Python type, see PyTuple, PyList and PyInt.                       *)
(***************************************************************************)
EXTENDS Integers, Sequences, FiniteSets, TLC

VARIABLES
    game_board,         \* Solver.game_board: coordinate -> 0..9 (0 is None)
    marked_board,       \* Solver.marked_board (also the board handed to search)
    found_moves,        \* Solver.found_moves (also the already_found argument)
    moves,              \* Solver.solution.moves
    marks,              \* Solver.solution.marks
    is_full_solution,   \* Solver.solution.is_full_solution
    is_complete,        \* Solver.is_complete
    is_fully_solved,    \* the attributes named is_fully_solved that solve() sets
    solve_mv,           \* the local variable mv of solve()
    raised,             \* the exception that escaped the last call, or "none"
    jsn,                \* the last result of Solution.to_json / the input of from_json
    decoded,            \* the last result of Solution.from_json
    sr_kind,            \* the move class whose search was called last
    sr_result,          \* what that search returned
    sr_marks,           \* what compute_marks of the returned move returned
    first_run,          \* the Solution an earlier solve of the same board returned
    solve_again         \* what a second call of solve() on the same Solver returned

vars == <<game_board, marked_board, found_moves, moves, marks, is_full_solution,
          is_complete, is_fully_solved, solve_mv, raised, jsn, decoded, sr_kind,
          sr_result, sr_marks, first_run, solve_again>>

solver_vars == <<game_board, marked_board, found_moves, moves, marks,
                 is_full_solution, is_complete, is_fully_solved, solve_mv>>

io_vars == <<jsn, decoded>>

search_vars == <<sr_kind, sr_result, sr_marks>>

----------------------------------------------------------------------------
(* Generic helpers.                                                        *)

Min(S) == CHOOSE x \in S : \A y \in S : x <= y

Range(s) == {s[k] : k \in DOMAIN s}

\* sum(list_of_bools): the number of positions of s that hold TRUE.
CountTrue(s) == Cardinality({k \in DOMAIN s : s[k]})

\* list.index(value): the first position (0-based) of s holding value v.
IndexOf(s, v) == Min({k \in DOMAIN s : s[k] = v}) - 1

----------------------------------------------------------------------------
(* Python type tags.                                                       *)

PyTuple(s) == [py |-> "tuple", items |-> s]

PyList(s) == [py |-> "list", items |-> s]

PyInt(n) == [py |-> "int", items |-> <<n>>]

----------------------------------------------------------------------------
(* boards.py                                                               *)

Coords == (0..8) \X (0..8)

all_marks == 1..9

FULL_MARKS == 1..9

\* BoardIteratorComponent.iter_board: the 81 coordinates in row-major order.
iter_board == [k \in 1..81 |-> <<(k - 1) \div 9, (k - 1) % 9>>]

iter_row(row) == [k \in 1..9 |-> <<row, k - 1>>]

iter_column(column) == [k \in 1..9 |-> <<k - 1, column>>]

iter_box(box) ==
    [k \in 1..9 |-> <<3 * box[1] + ((k - 1) \div 3), 3 * box[2] + ((k - 1) % 3)>>]

iter_row_containing(coords) == iter_row(coords[1])

iter_column_containing(coords) == iter_column(coords[2])

iter_box_containing(coords) == iter_box(<<coords[1] \div 3, coords[2] \div 3>>)

\* iter_boxes_in_row: the marks of the row cut into three lists of three.
iter_boxes_in_row(board, row) ==
    [i \in 1..3 |-> [k \in 1..3 |-> board[<<row, 3 * (i - 1) + (k - 1)>>]]]

iter_boxes_in_column(board, column) ==
    [j \in 1..3 |-> [k \in 1..3 |-> board[<<3 * (j - 1) + (k - 1), column>>]]]

\* GameBoard.__init__ and MarkedBoard.__init__
EmptyGameBoard == [c \in Coords |-> 0]

EmptyMarkedBoard == [c \in Coords |-> {}]

\* compute_marks_from_placed_number without the box of coords.
compute_marks_from_placed_number_no_box(board, coords, number) ==
    LET placements == Range(iter_row_containing(coords))
                        \cup Range(iter_column_containing(coords))
    IN  [c \in placements \cup {coords} |->
            IF c = coords THEN all_marks \cup {number} ELSE {number}]

\* MarkedBoard.compute_marks_from_placed_number.  The dictionary is keyed by
\* the cells of the row, the column and the box of coords; the entry of
\* coords itself is the all_marks set (to which number is then added, a
\* no-op for a digit of 1..9).
compute_marks_from_placed_number(board, coords, number) ==
    LET placements == Range(iter_row_containing(coords))
                        \cup Range(iter_column_containing(coords))
                        \cup Range(iter_box_containing(coords))
    IN  [c \in placements \cup {coords} |->
            IF c = coords THEN all_marks \cup {number} ELSE {number}]

\* add_marks with assignment in place of set.update.
add_marks_overwrite(board, new_marks) ==
    [c \in Coords |-> IF c \in DOMAIN new_marks THEN new_marks[c] ELSE board[c]]

\* MarkedBoard.add_marks: per-cell set.update.
add_marks(board, new_marks) ==
    [c \in Coords |-> IF c \in DOMAIN new_marks THEN board[c] \cup new_marks[c]
                                                ELSE board[c]]

\* add_marks_from_placed_number that leaves the cell of the number alone.
add_marks_from_placed_number_peers_only(board, coords, number) ==
    LET all == compute_marks_from_placed_number(board, coords, number)
    IN  add_marks(board, [c \in DOMAIN all \ {coords} |-> all[c]])

add_marks_from_placed_number(board, coords, number) ==
    add_marks(board, compute_marks_from_placed_number(board, coords, number))

\* The cells the loop of MarkedBoard.from_game_board acts on: those of
\* iter_board whose number is not None, in order.
filled_cells(gb) == SelectSeq(iter_board, LAMBDA coords : gb[coords] # 0)

\* MarkedBoard.from_game_board: add_marks_from_placed_number for the first k
\* filled cells, in order.
RECURSIVE from_game_board_upto(_, _, _)
from_game_board_upto(gb, cells, k) ==
    IF k = 0 THEN EmptyMarkedBoard
    ELSE add_marks_from_placed_number(from_game_board_upto(gb, cells, k - 1),
                                      cells[k], gb[cells[k]])

from_game_board(gb) == from_game_board_upto(gb, filled_cells(gb), Len(filled_cells(gb)))

----------------------------------------------------------------------------
(* utils.py                                                                *)

\* all_empty as a test for a dictionary without keys.
all_empty_no_keys(dict_of_sets) == DOMAIN dict_of_sets = {}

\* all_empty(dict_of_sets)
all_empty(dict_of_sets) == \A c \in DOMAIN dict_of_sets : dict_of_sets[c] = {}

\* pairs_exclude_diagonal over a house of nine cells: product(it, repeat=2)
\* without the pairs x == y, as pairs of positions in the house.
pairs_exclude_diagonal ==
    LET prod == [p \in 1..81 |-> <<((p - 1) \div 9) + 1, ((p - 1) % 9) + 1>>]
    IN  SelectSeq(prod, LAMBDA xy : xy[1] # xy[2])

\* iter_number_pairs: (i, j) for i in range(9) for j in range(i + 1, 9).
iter_number_pairs ==
    LET prod == [p \in 1..81 |-> <<(p - 1) \div 9, (p - 1) % 9>>]
    IN  SelectSeq(prod, LAMBDA ij : ij[1] < ij[2])

----------------------------------------------------------------------------
(* moves.py: move objects and houses.                                      *)

\* HouseType
ROW == "ROW"

COLUMN == "COLUMN"

BOX == "BOX"

\* The value search returns when it finds nothing.
None == [class |-> "NoneType"]

\* A local variable that is not bound (the call is not running, or the loop
\* is about to search).
Unbound == [class |-> "Unbound"]

\* The index iterators of the search_params lists: range(9) for rows and
\* columns, product(range(3), range(3)) for boxes.
house_idx_iter(house_type) ==
    IF house_type = BOX
       THEN [k \in 1..9 |-> PyTuple(<<(k - 1) \div 3, (k - 1) % 3>>)]
       ELSE [k \in 1..9 |-> PyInt(k - 1)]

\* The house iterators of the search_params lists (iter_row, iter_column,
\* iter_box) applied to a house index.
house_iter(house_type, house_idx) ==
    CASE house_type = ROW    -> iter_row(house_idx.items[1])
      [] house_type = COLUMN -> iter_column(house_idx.items[1])
      [] house_type = BOX    -> iter_box(house_idx.items)

\* Constructors (__init__ of each move class).
Finished == [class |-> "Finished"]

NakedSingle(coords, number) ==
    [class |-> "NakedSingle", coords |-> coords, number |-> number]

HiddenSingle(coords, house_type, number) ==
    [class |-> "HiddenSingle", coords |-> coords, house_type |-> house_type,
     number |-> number]

IntersectionTrickPointing(box, house_type, house_idx, number) ==
    [class |-> "IntersectionTrickPointing", box |-> box,
     house_type |-> house_type, house_idx |-> house_idx, number |-> number]

IntersectionTrickClaiming(house_type, house_idx, box_idx, number) ==
    [class |-> "IntersectionTrickClaiming", house_type |-> house_type,
     house_idx |-> house_idx, box_idx |-> box_idx, number |-> number]

\* numbers is stored as set(numbers).
NakedDouble(house_type, house_idx, double_idxs, numbers) ==
    [class |-> "NakedDouble", house_type |-> house_type, house_idx |-> house_idx,
     double_idxs |-> double_idxs, numbers |-> Range(numbers)]

HiddenDouble(house_type, house_idx, double_idxs, numbers) ==
    [class |-> "HiddenDouble", house_type |-> house_type, house_idx |-> house_idx,
     double_idxs |-> double_idxs, numbers |-> Range(numbers)]

\* Accepts without the new-marks test.
Accepts_any_marks(new_marks, it, already_found) ==
    (already_found = {} \/ it \notin already_found)

\* The acceptance test shared by the four searches that take already_found
\* into account: not all_empty(new_marks) and (not already_found or it not
\* in already_found).
Accepts(new_marks, it, already_found) ==
    /\ ~all_empty(new_marks)
    /\ (already_found = {} \/ it \notin already_found)

----------------------------------------------------------------------------
(* Finished, NakedSingle, HiddenSingle                                     *)

\* Finished.search that looks at the first row only.
Finished_search_first_row(board, already_found) ==
    IF \A k \in 1..9 : board[iter_board[k]] = all_marks THEN Finished ELSE None

Finished_search(board, already_found) ==
    IF \A k \in 1..81 : board[iter_board[k]] = all_marks THEN Finished ELSE None

Finished_compute_marks(mv, board) == [c \in {} |-> {}]

\* NakedSingle.search that returns the last cell of the scan.
NakedSingle_search_last(board, already_found) ==
    LET hits == {k \in 1..81 : Cardinality(all_marks \ board[iter_board[k]]) = 1}
    IN  IF hits = {} THEN None
        ELSE LET coords == iter_board[CHOOSE k \in hits : \A j \in hits : j <= k]
                 number == CHOOSE n \in all_marks \ board[coords] : TRUE
             IN  NakedSingle(PyTuple(coords), number)

NakedSingle_search(board, already_found) ==
    LET hits == {k \in 1..81 : Cardinality(all_marks \ board[iter_board[k]]) = 1}
    IN  IF hits = {} THEN None
        ELSE LET coords == iter_board[Min(hits)]
                 number == CHOOSE n \in all_marks \ board[coords] : TRUE
             IN  NakedSingle(PyTuple(coords), number)

\* NakedSingle.compute_marks that leaves the cell of the move alone.
NakedSingle_compute_marks_peers_only(mv, board) ==
    LET all == compute_marks_from_placed_number(board, mv.coords.items, mv.number)
    IN  [c \in DOMAIN all \ {mv.coords.items} |-> all[c]]

NakedSingle_compute_marks(mv, board) ==
    compute_marks_from_placed_number(board, mv.coords.items, mv.number)

\* The list is_marked of _search_single_house_type for one house and number.
HiddenSingle_is_marked(board, house, number) ==
    [k \in 1..9 |-> number \in board[house[k]]]

\* _search_single_house_type that takes a house with any cell unmarked.
HiddenSingle_search_single_house_type_any_unmarked(board, house_type) ==
    LET idxs == house_idx_iter(house_type)
        House(p) == house_iter(house_type, idxs[((p - 1) \div 9) + 1])
        Number(p) == ((p - 1) % 9) + 1
        hits == {p \in 1..81 :
                    CountTrue(HiddenSingle_is_marked(board, House(p), Number(p))) <= 8}
    IN  IF hits = {} THEN None
        ELSE LET p == Min(hits)
                 idx == IndexOf(HiddenSingle_is_marked(board, House(p), Number(p)), FALSE)
             IN  HiddenSingle(PyTuple(House(p)[idx + 1]), house_type, Number(p))

\* product(house_idx_iter, range(1, 10)) is walked by position p.
HiddenSingle_search_single_house_type(board, house_type) ==
    LET idxs == house_idx_iter(house_type)
        House(p) == house_iter(house_type, idxs[((p - 1) \div 9) + 1])
        Number(p) == ((p - 1) % 9) + 1
        hits == {p \in 1..81 :
                    CountTrue(HiddenSingle_is_marked(board, House(p), Number(p))) = 8}
    IN  IF hits = {} THEN None
        ELSE LET p == Min(hits)
                 idx == IndexOf(HiddenSingle_is_marked(board, House(p), Number(p)), FALSE)
             IN  HiddenSingle(PyTuple(House(p)[idx + 1]), house_type, Number(p))

\* HiddenSingle.search with the columns before the rows.
HiddenSingle_search_columns_first(board, already_found) ==
    LET r == HiddenSingle_search_single_house_type(board, ROW)
        c == HiddenSingle_search_single_house_type(board, COLUMN)
        b == HiddenSingle_search_single_house_type(board, BOX)
    IN  IF c # None THEN c ELSE IF r # None THEN r ELSE b

HiddenSingle_search(board, already_found) ==
    LET r == HiddenSingle_search_single_house_type(board, ROW)
        c == HiddenSingle_search_single_house_type(board, COLUMN)
        b == HiddenSingle_search_single_house_type(board, BOX)
    IN  IF r # None THEN r ELSE IF c # None THEN c ELSE b

\* HiddenSingle.compute_marks that leaves the cell of the move alone.
HiddenSingle_compute_marks_peers_only(mv, board) ==
    LET all == compute_marks_from_placed_number(board, mv.coords.items, mv.number)
    IN  [c \in DOMAIN all \ {mv.coords.items} |-> all[c]]

HiddenSingle_compute_marks(mv, board) ==
    compute_marks_from_placed_number(board, mv.coords.items, mv.number)

----------------------------------------------------------------------------
(* IntersectionTrickPointing                                               *)

IntersectionTrickPointing_in_box(coords, box) ==
    (box[1] = coords[1] \div 3) /\ (box[2] = coords[2] \div 3)

\* _compute_marks_for_row without the _in_box test.
IntersectionTrickPointing_compute_marks_for_row_whole_row(mv, board) ==
    LET box == mv.box.items
        row == iter_row(3 * box[1] + mv.house_idx)
        keys == {c \in Range(row) : mv.number \notin board[c]}
    IN  [c \in keys |-> {mv.number}]

IntersectionTrickPointing_compute_marks_for_row(mv, board) ==
    LET box == mv.box.items
        row == iter_row(3 * box[1] + mv.house_idx)
        keys == {c \in Range(row) :
                    /\ mv.number \notin board[c]
                    /\ ~IntersectionTrickPointing_in_box(c, box)}
    IN  [c \in keys |-> {mv.number}]

IntersectionTrickPointing_compute_marks_for_column(mv, board) ==
    LET box == mv.box.items
        col == iter_column(3 * box[2] + mv.house_idx)
        keys == {c \in Range(col) :
                    /\ mv.number \notin board[c]
                    /\ ~IntersectionTrickPointing_in_box(c, box)}
    IN  [c \in keys |-> {mv.number}]

IntersectionTrickPointing_compute_marks(mv, board) ==
    CASE mv.house_type = ROW    -> IntersectionTrickPointing_compute_marks_for_row(mv, board)
      [] mv.house_type = COLUMN -> IntersectionTrickPointing_compute_marks_for_column(mv, board)

get_marks_for_rows_in_box(board, box_coords) ==
    [i \in 1..3 |-> [j \in 1..3 |->
        board[<<3 * box_coords[1] + (i - 1), 3 * box_coords[2] + (j - 1)>>]]]

get_marks_for_columns_in_box(board, box_coords) ==
    [j \in 1..3 |-> [i \in 1..3 |->
        board[<<3 * box_coords[1] + (i - 1), 3 * box_coords[2] + (j - 1)>>]]]

\* possible_in_intersection: any(number not in marks for marks in house)
possible_in(houses, number) ==
    [h \in 1..3 |-> \E k \in 1..3 : number \notin houses[h][k]]

IntersectionTrickPointing_search_one(board, house_type, box_coords, already_found) ==
    LET houses_in_box ==
            CASE house_type = ROW    -> get_marks_for_rows_in_box(board, box_coords)
              [] house_type = COLUMN -> get_marks_for_columns_in_box(board, box_coords)
        It(number) ==
            IntersectionTrickPointing(PyTuple(box_coords), house_type,
                IndexOf(possible_in(houses_in_box, number), TRUE), number)
        hits == {number \in 1..9 :
                    /\ CountTrue(possible_in(houses_in_box, number)) = 1
                    /\ Accepts(IntersectionTrickPointing_compute_marks(It(number), board),
                               It(number), already_found)}
    IN  IF hits = {} THEN None ELSE It(Min(hits))

\* IntersectionTrickPointing.search with the columns of a box before its rows.
IntersectionTrickPointing_search_columns_first(board, already_found) ==
    LET Try(q) == IntersectionTrickPointing_search_one(board,
                      IF (q - 1) % 2 = 0 THEN COLUMN ELSE ROW,
                      <<((q - 1) \div 2) \div 3, ((q - 1) \div 2) % 3>>,
                      already_found)
        hits == {q \in 1..18 : Try(q) # None}
    IN  IF hits = {} THEN None ELSE Try(Min(hits))

\* product(range(3), range(3)) x [ROW, COLUMN], walked by position q.
IntersectionTrickPointing_search(board, already_found) ==
    LET Try(q) == IntersectionTrickPointing_search_one(board,
                      IF (q - 1) % 2 = 0 THEN ROW ELSE COLUMN,
                      <<((q - 1) \div 2) \div 3, ((q - 1) \div 2) % 3>>,
                      already_found)
        hits == {q \in 1..18 : Try(q) # None}
    IN  IF hits = {} THEN None ELSE Try(Min(hits))

----------------------------------------------------------------------------
(* IntersectionTrickClaiming                                               *)

IntersectionTrickClaiming_in_house(mv, coords) ==
    CASE mv.house_type = ROW    -> coords[1] = mv.house_idx
      [] mv.house_type = COLUMN -> coords[2] = mv.house_idx

IntersectionTrickClaiming_box_coords(mv) ==
    CASE mv.house_type = ROW    -> <<mv.house_idx \div 3, mv.box_idx>>
      [] mv.house_type = COLUMN -> <<mv.box_idx, mv.house_idx \div 3>>

\* compute_marks that marks one cell of the box per call.
IntersectionTrickClaiming_compute_marks_one_cell(mv, board) ==
    LET box == iter_box(IntersectionTrickClaiming_box_coords(mv))
        hits == {k \in 1..9 :
                    /\ ~IntersectionTrickClaiming_in_house(mv, box[k])
                    /\ mv.number \notin board[box[k]]}
    IN  [c \in {box[k] : k \in {j \in hits : j = Min(hits)}} |-> {mv.number}]

IntersectionTrickClaiming_compute_marks(mv, board) ==
    LET box == iter_box(IntersectionTrickClaiming_box_coords(mv))
        keys == {c \in Range(box) :
                    /\ ~IntersectionTrickClaiming_in_house(mv, c)
                    /\ mv.number \notin board[c]}
    IN  [c \in keys |-> {mv.number}]

\* product(range(9), range(1, 10)) is walked by position p.
IntersectionTrickClaiming_search_one(board, house_type, already_found) ==
    LET Idx(p) == (p - 1) \div 9
        Number(p) == ((p - 1) % 9) + 1
        Possible(p) ==
            CASE house_type = ROW    -> possible_in(iter_boxes_in_row(board, Idx(p)), Number(p))
              [] house_type = COLUMN -> possible_in(iter_boxes_in_column(board, Idx(p)), Number(p))
        It(p) == IntersectionTrickClaiming(house_type, Idx(p),
                     IndexOf(Possible(p), TRUE), Number(p))
        hits == {p \in 1..81 :
                    /\ CountTrue(Possible(p)) = 1
                    /\ Accepts(IntersectionTrickClaiming_compute_marks(It(p), board),
                               It(p), already_found)}
    IN  IF hits = {} THEN None ELSE It(Min(hits))

\* IntersectionTrickClaiming.search with the columns before the rows.
IntersectionTrickClaiming_search_columns_first(board, already_found) ==
    LET c == IntersectionTrickClaiming_search_one(board, COLUMN, already_found)
    IN  IF c # None THEN c
        ELSE IntersectionTrickClaiming_search_one(board, ROW, already_found)

IntersectionTrickClaiming_search(board, already_found) ==
    LET r == IntersectionTrickClaiming_search_one(board, ROW, already_found)
    IN  IF r # None THEN r
        ELSE IntersectionTrickClaiming_search_one(board, COLUMN, already_found)

----------------------------------------------------------------------------
(* NakedDouble                                                             *)

\* coords not in self.double_idxs: membership in a tuple of tuples.
in_double_idxs(coords, double_idxs) ==
    \E k \in DOMAIN double_idxs.items : double_idxs.items[k] = PyTuple(coords)

\* Every cell of the house outside the double gets an entry, empty or not.
NakedDouble_compute_marks(mv, board) ==
    LET house == house_iter(mv.house_type, mv.house_idx)
        keys == {c \in Range(house) : ~in_double_idxs(c, mv.double_idxs)}
    IN  [c \in keys |-> mv.numbers \ board[c]]

\* house_idx_iter x pairs_exclude_diagonal(house) is walked by position q.
NakedDouble_search_in_single_house_type(board, already_found, house_type) ==
    LET idxs == house_idx_iter(house_type)
        npairs == Len(pairs_exclude_diagonal)
        HouseIdx(q) == idxs[((q - 1) \div npairs) + 1]
        Pair(q) == pairs_exclude_diagonal[((q - 1) % npairs) + 1]
        Coords1(q) == house_iter(house_type, HouseIdx(q))[Pair(q)[1]]
        Coords2(q) == house_iter(house_type, HouseIdx(q))[Pair(q)[2]]
        Nd(q) == NakedDouble(house_type, HouseIdx(q),
                     PyTuple(<<PyTuple(Coords1(q)), PyTuple(Coords2(q))>>),
                     [n \in FULL_MARKS \ board[Coords1(q)] |-> n])
        hits == {q \in 1..(9 * npairs) :
                    /\ Cardinality(board[Coords1(q)]) = 7
                    /\ Cardinality(board[Coords2(q)]) = 7
                    /\ board[Coords1(q)] = board[Coords2(q)]
                    /\ Accepts(NakedDouble_compute_marks(Nd(q), board), Nd(q),
                               already_found)}
    IN  IF hits = {} THEN None ELSE Nd(Min(hits))

\* NakedDouble.search with the boxes before the rows and columns.
NakedDouble_search_boxes_first(board, already_found) ==
    LET r == NakedDouble_search_in_single_house_type(board, already_found, ROW)
        c == NakedDouble_search_in_single_house_type(board, already_found, COLUMN)
        b == NakedDouble_search_in_single_house_type(board, already_found, BOX)
    IN  IF b # None THEN b ELSE IF r # None THEN r ELSE c

NakedDouble_search(board, already_found) ==
    LET r == NakedDouble_search_in_single_house_type(board, already_found, ROW)
        c == NakedDouble_search_in_single_house_type(board, already_found, COLUMN)
        b == NakedDouble_search_in_single_house_type(board, already_found, BOX)
    IN  IF r # None THEN r ELSE IF c # None THEN c ELSE b

----------------------------------------------------------------------------
(* HiddenDouble                                                            *)

HiddenDouble_compute_marks(mv, board) ==
    LET d0 == mv.double_idxs.items[1].items
        d1 == mv.double_idxs.items[2].items
    IN  [c \in {d0, d1} |-> (FULL_MARKS \ board[c]) \ mv.numbers]

\* The lists n1_possible / n2_possible of _search for one house and number.
HiddenDouble_possible(board, house, n) == [k \in 1..9 |-> n \notin board[house[k]]]

\* compress(n1_coords, n1_possible): the coordinates at the TRUE positions.
compress(house, selectors) ==
    LET RECURSIVE Go(_)
        Go(k) == IF k > Len(house) THEN <<>>
                 ELSE IF selectors[k] THEN <<PyTuple(house[k])>> \o Go(k + 1)
                                      ELSE Go(k + 1)
    IN  Go(1)

\* product(house_idx_iter, iter_number_pairs()) is walked by position q.
HiddenDouble_search_one(board, already_found, house_type) ==
    LET idxs == house_idx_iter(house_type)
        npairs == Len(iter_number_pairs)
        HouseIdx(q) == idxs[((q - 1) \div npairs) + 1]
        House(q) == house_iter(house_type, HouseIdx(q))
        N1(q) == iter_number_pairs[((q - 1) % npairs) + 1][1]
        N2(q) == iter_number_pairs[((q - 1) % npairs) + 1][2]
        Hd(q) == HiddenDouble(house_type, HouseIdx(q),
                     PyTuple(compress(House(q), HiddenDouble_possible(board, House(q), N1(q)))),
                     <<N1(q), N2(q)>>)
        hits == {q \in 1..(9 * npairs) :
                    /\ CountTrue(HiddenDouble_possible(board, House(q), N1(q))) = 2
                    /\ CountTrue(HiddenDouble_possible(board, House(q), N2(q))) = 2
                    /\ HiddenDouble_possible(board, House(q), N1(q))
                         = HiddenDouble_possible(board, House(q), N2(q))
                    /\ Accepts(HiddenDouble_compute_marks(Hd(q), board), Hd(q),
                               already_found)}
    IN  IF hits = {} THEN None ELSE Hd(Min(hits))

HiddenDouble_search(board, already_found) ==
    LET r == HiddenDouble_search_one(board, already_found, ROW)
        c == HiddenDouble_search_one(board, already_found, COLUMN)
        b == HiddenDouble_search_one(board, already_found, BOX)
    IN  IF r # None THEN r ELSE IF c # None THEN c ELSE b

----------------------------------------------------------------------------
(* Dispatch over the move classes.                                         *)

\* MOVES_ORDER with the two singles exchanged.
MOVES_ORDER_naked_first ==
    <<"Finished", "NakedSingle", "HiddenSingle", "IntersectionTrickPointing",
      "IntersectionTrickClaiming", "HiddenDouble", "NakedDouble">>

MOVES_ORDER ==
    <<"Finished", "HiddenSingle", "NakedSingle", "IntersectionTrickPointing",
      "IntersectionTrickClaiming", "HiddenDouble", "NakedDouble">>

\* cls.search(marked_board, already_found=...)
search(cls, board, already_found) ==
    CASE cls = "Finished"                  -> Finished_search(board, already_found)
      [] cls = "NakedSingle"               -> NakedSingle_search(board, already_found)
      [] cls = "HiddenSingle"              -> HiddenSingle_search(board, already_found)
      [] cls = "IntersectionTrickPointing" -> IntersectionTrickPointing_search(board, already_found)
      [] cls = "IntersectionTrickClaiming" -> IntersectionTrickClaiming_search(board, already_found)
      [] cls = "HiddenDouble"              -> HiddenDouble_search(board, already_found)
      [] cls = "NakedDouble"               -> NakedDouble_search(board, already_found)

\* mv.compute_marks(marked_board)
compute_marks(mv, board) ==
    CASE mv.class = "Finished"                  -> Finished_compute_marks(mv, board)
      [] mv.class = "NakedSingle"               -> NakedSingle_compute_marks(mv, board)
      [] mv.class = "HiddenSingle"              -> HiddenSingle_compute_marks(mv, board)
      [] mv.class = "IntersectionTrickPointing" -> IntersectionTrickPointing_compute_marks(mv, board)
      [] mv.class = "IntersectionTrickClaiming" -> IntersectionTrickClaiming_compute_marks(mv, board)
      [] mv.class = "HiddenDouble"              -> HiddenDouble_compute_marks(mv, board)
      [] mv.class = "NakedDouble"               -> NakedDouble_compute_marks(mv, board)

----------------------------------------------------------------------------
(* solver.py: Solver                                                       *)

\* Solver.find_next_move: the first class of MOVES_ORDER whose search
\* returns a move.
RECURSIVE find_next_move_from(_, _, _)
find_next_move_from(k, board, already_found) ==
    IF k > Len(MOVES_ORDER) THEN None
    ELSE LET mv == search(MOVES_ORDER[k], board, already_found)
         IN  IF mv # None THEN mv ELSE find_next_move_from(k + 1, board, already_found)

find_next_move(board, already_found) == find_next_move_from(1, board, already_found)

----------------------------------------------------------------------------
(* moves.py: MoveIOMixin, and the registry MOVES_DICT.                     *)

\* An exception escaping a call.
Raise(exc) == [raised |-> exc]

IsRaise(v) == "raised" \in DOMAIN v

\* MoveIOMixin.to_dict: a copy of __dict__ with the class name under "name".
to_dict(mv) ==
    [k \in (DOMAIN mv \ {"class"}) \cup {"name"} |->
        IF k = "name" THEN mv.class ELSE mv[k]]

\* The parameters of each class's __init__.
init_params(cls) ==
    CASE cls = "Finished"      -> {}
      [] cls = "NakedSingle"   -> {"coords", "number"}
      [] cls = "HiddenSingle"  -> {"coords", "house_type", "number"}
      [] cls = "IntersectionTrickPointing" -> {"box", "house_type", "house_idx", "number"}
      [] cls = "IntersectionTrickClaiming" -> {"house_type", "house_idx", "box_idx", "number"}
      [] cls = "NakedDouble"   -> {"house_type", "house_idx", "double_idxs", "numbers"}
      [] cls = "HiddenDouble"  -> {"house_type", "house_idx", "double_idxs", "numbers"}

\* MoveIOMixin.from_dict: del d["name"]; cls(**d).  The attributes are stored
\* as given (set(numbers) of a set is that set).
from_dict(cls, dct) ==
    IF "name" \notin DOMAIN dct THEN Raise("KeyError")
    ELSE IF (DOMAIN dct \ {"name"}) # init_params(cls) THEN Raise("TypeError")
    ELSE [k \in (DOMAIN dct \ {"name"}) \cup {"class"} |->
             IF k = "class" THEN cls ELSE dct[k]]

\* MoveIOMixin.__eq__: self.to_dict() == other.to_dict()
move_eq(a, b) == to_dict(a) = to_dict(b)

\* json.dumps of a to_dict dictionary.  A HouseType member and a set are not
\* JSON serializable; a tuple is written as an array.  The text is modelled
\* by the JSON document it denotes.
json_dumps(dct) ==
    IF \E k \in DOMAIN dct : k \in {"house_type", "numbers"} THEN Raise("TypeError")
    ELSE [k \in DOMAIN dct |->
             IF k \in {"coords", "box"}
                THEN [py |-> "array", items |-> dct[k].items]
                ELSE dct[k]]

\* json.loads of one JSON object: an array is read as a list.
json_loads(obj) ==
    [k \in DOMAIN obj |->
        IF k \in {"coords", "box"} THEN PyList(obj[k].items) ELSE obj[k]]

\* MoveIOMixin.to_json
to_json(mv) == json_dumps(to_dict(mv))

\* MoveIOMixin.from_json
from_json(cls, obj) == from_dict(cls, json_loads(obj))

MOVES_DICT ==
    [n \in {"Finished", "NakedSingle", "HiddenSingle", "IntersectionTrickPointing",
            "IntersectionTrickClaiming", "NakedDouble", "HidenDouble"} |->
        IF n = "HidenDouble" THEN "HiddenDouble" ELSE n]

----------------------------------------------------------------------------
(* solver.py: Solution                                                     *)

\* Solution.to_json: "[" + ",".join(move.to_json() for move in moves) + "]",
\* as the sequence of JSON objects the text denotes.
Solution_to_json(mvs) ==
    IF \E k \in 1..Len(mvs) : IsRaise(to_json(mvs[k])) THEN Raise("TypeError")
    ELSE [text |-> [k \in 1..Len(mvs) |-> to_json(mvs[k])]]

\* The loop of Solution.from_json over the loaded records: the first record
\* that fails raises; otherwise the moves are collected in order.
RECURSIVE Solution_from_dicts(_)
Solution_from_dicts(dicts) ==
    IF dicts = <<>> THEN [moves |-> <<>>]
    ELSE LET move == Head(dicts)
         IN  IF "name" \notin DOMAIN move THEN Raise("KeyError")
             ELSE IF move.name \notin DOMAIN MOVES_DICT THEN Raise("KeyError")
             ELSE LET mv == from_dict(MOVES_DICT[move.name], move)
                      rest == Solution_from_dicts(Tail(dicts))
                  IN  IF IsRaise(mv) THEN mv
                      ELSE IF IsRaise(rest) THEN rest
                      ELSE [moves |-> <<mv>> \o rest.moves]

\* Solution.from_json that passes over the records whose name is not a key
\* of MOVES_DICT.
Solution_from_json_lenient(text) ==
    Solution_from_dicts(
        SelectSeq([k \in 1..Len(text) |-> json_loads(text[k])],
                  LAMBDA d : "name" \in DOMAIN d => d.name \in DOMAIN MOVES_DICT))

\* Solution.from_json
Solution_from_json(text) ==
    Solution_from_dicts([k \in 1..Len(text) |-> json_loads(text[k])])

----------------------------------------------------------------------------
(* Input boards.  A board is given by its filled cells <<row, column, digit>>;*)
(* GameBoard.__setitem__ is applied to each of them.                       *)

Board(givens) ==
    [c \in Coords |->
        IF \E g \in givens : <<g[1], g[2]>> = c
           THEN (CHOOSE g \in givens : <<g[1], g[2]>> = c)[3]
           ELSE 0]

\* GameBoard.__setitem__ for each extra placement on top of a board.
Place(gb, extras) ==
    [c \in Coords |->
        IF \E g \in extras : <<g[1], g[2]>> = c
           THEN (CHOOSE g \in extras : <<g[1], g[2]>> = c)[3]
           ELSE gb[c]]

\* A complete valid grid.
FullGrid == [c \in Coords |-> ((3 * (c[1] % 3) + (c[1] \div 3) + c[2]) % 9) + 1]

\* A puzzle with 25 givens that the solver solves completely.
Puzzle ==
    Board({
     <<0, 0, 9>>, <<0, 1, 5>>, <<0, 3, 8>>, <<0, 7, 6>>, <<0, 8, 4>>, <<1, 0, 4>>,
     <<2, 2, 8>>, <<2, 5, 6>>, <<2, 6, 3>>, <<3, 0, 8>>, <<3, 1, 1>>, <<4, 2, 6>>,
     <<4, 8, 2>>, <<5, 2, 7>>, <<5, 3, 6>>, <<5, 5, 9>>, <<6, 0, 5>>, <<6, 3, 1>>,
     <<6, 8, 6>>, <<7, 2, 1>>, <<7, 7, 8>>, <<8, 1, 3>>, <<8, 3, 9>>, <<8, 4, 5>>,
     <<8, 6, 1>>
    })

\* The boards of the unit tests of src/test/test_moves.py and of the
\* scenarios of the specification; the last one is the board of
\* test_hidden_double_row with the digits 8 and 9 in place of 1 and 2.
BaseBoards ==
    { EmptyGameBoard,
      FullGrid,
      Puzzle,
      Board({<<0, k, k + 1>> : k \in 1..8}),
      Board({<<1, 3, 1>>, <<2, 6, 1>>, <<0, 1, 2>>, <<0, 2, 3>>}),
      Board({<<0, 6, 2>>, <<0, 7, 3>>, <<0, 8, 4>>, <<6, 0, 5>>, <<7, 0, 6>>,
             <<8, 0, 7>>, <<1, 1, 8>>, <<2, 2, 9>>}),
      Board({<<0, 0, 2>>, <<0, 1, 3>>, <<0, 2, 4>>, <<1, 6, 8>>, <<1, 7, 9>>,
             <<2, 0, 5>>, <<2, 1, 6>>, <<2, 2, 7>>}),
      Board({<<0, 0, 2>>, <<0, 1, 3>>, <<0, 2, 4>>, <<1, 5, 2>>, <<1, 6, 8>>,
             <<1, 7, 9>>, <<2, 0, 5>>, <<2, 1, 6>>, <<2, 2, 7>>, <<4, 4, 1>>,
             <<7, 3, 1>>, <<8, 8, 1>>}),
      Board({<<0, 0, 2>>, <<0, 1, 3>>, <<0, 2, 4>>, <<0, 6, 5>>, <<0, 7, 6>>,
             <<0, 8, 7>>}),
      Board({<<0, 0, 3>>, <<0, 1, 4>>, <<0, 2, 5>>, <<1, 0, 6>>, <<1, 6, 7>>,
             <<1, 7, 8>>, <<1, 8, 9>>}),
      Board({<<0, 0, 3>>, <<0, 1, 4>>, <<0, 6, 8>>, <<0, 7, 9>>, <<1, 0, 5>>,
             <<1, 1, 6>>, <<1, 6, 1>>, <<2, 2, 7>>, <<6, 0, 8>>, <<7, 0, 9>>,
             <<7, 1, 2>>}),
      Board({<<0, 0, 3>>, <<0, 1, 4>>, <<0, 6, 8>>, <<0, 7, 9>>, <<1, 0, 5>>,
             <<1, 1, 6>>, <<1, 6, 1>>, <<1, 7, 2>>, <<2, 2, 7>>, <<6, 0, 8>>,
             <<6, 1, 1>>, <<7, 0, 9>>, <<7, 1, 2>>}),
      Board({<<0, 6, 3>>, <<0, 7, 4>>, <<0, 8, 5>>, <<1, 3, 1>>, <<1, 4, 2>>,
             <<6, 1, 1>>, <<7, 1, 2>>}),
      Board({<<0, 6, 1>>, <<0, 7, 2>>, <<1, 1, 3>>, <<2, 2, 4>>, <<6, 0, 1>>,
             <<7, 0, 2>>}),
      Board({<<0, 6, 3>>, <<0, 7, 4>>, <<0, 8, 5>>, <<1, 3, 8>>, <<1, 4, 9>>,
             <<6, 1, 8>>, <<7, 1, 9>>}) }

\* Placements a caller may write on top of a base board before solving.
ExtraPlacements == {<<0, 0, 1>>, <<4, 4, 5>>, <<8, 8, 9>>, <<0, 8, 9>>}

\* The number of extra placements written on a base board.
MaxExtra == 1

InputBoards ==
    {Place(gb, extras) : gb \in BaseBoards,
                         extras \in {e \in SUBSET ExtraPlacements : Cardinality(e) <= MaxExtra}}

----------------------------------------------------------------------------
(* JSON documents handed to Solution.from_json by a caller.                *)

ExternalJson ==
    { <<>>,
      <<[name |-> "Finished"]>>,
      <<[name |-> "NakedSingle", coords |-> [py |-> "array", items |-> <<0, 0>>],
         number |-> 1]>>,
      <<[name |-> "Bogus"]>>,
      <<[name |-> "Finished"], [name |-> "HiddenDouble"]>>,
      <<[name |-> "HidenDouble"]>>,
      <<[name |-> "HidenDouble"], [name |-> "Bogus"]>>,
      <<[number |-> 1]>> }

----------------------------------------------------------------------------
(* The solver as a state machine.                                          *)

NoJson == [absent |-> TRUE]

\* The marks of no move.
NoMarks == [c \in {} |-> {}]

\* No earlier solve of the board.
NoRun == [absent |-> TRUE]

\* Solver.__init__ on an input board; nothing serialised or searched yet.
Init ==
    /\ game_board \in InputBoards
    /\ marked_board = from_game_board(game_board)
    /\ found_moves = {}
    /\ moves = <<>>
    /\ marks = <<>>
    /\ is_full_solution = FALSE
    /\ is_complete = FALSE
    /\ is_fully_solved = [solution |-> "absent", solver |-> "absent"]
    /\ solve_mv = Unbound
    /\ raised = "none"
    /\ jsn = NoJson
    /\ decoded = NoJson
    /\ sr_kind = "none"
    /\ sr_result = None
    /\ sr_marks = NoMarks
    /\ first_run = NoRun
    /\ solve_again = NoRun

\* The loop of solve() with the move classes tried in no fixed order.
FindNextMove_any_order ==
    /\ ~is_complete
    /\ solve_mv = Unbound
    /\ \/ \E cls \in Range(MOVES_ORDER) :
             /\ search(cls, marked_board, found_moves) # None
             /\ solve_mv' = search(cls, marked_board, found_moves)
       \/ /\ \A cls \in Range(MOVES_ORDER) : search(cls, marked_board, found_moves) = None
          /\ solve_mv' = None
    /\ raised' = "none"
    /\ UNCHANGED <<game_board, marked_board, found_moves, moves, marks,
                   is_full_solution, is_complete, is_fully_solved, io_vars,
                   search_vars, first_run, solve_again>>

\* The loop of solve(): mv = self.find_next_move().
FindNextMove ==
    /\ ~is_complete
    /\ solve_mv = Unbound
    /\ solve_mv' = find_next_move(marked_board, found_moves)
    /\ raised' = "none"
    /\ UNCHANGED <<game_board, marked_board, found_moves, moves, marks,
                   is_full_solution, is_complete, is_fully_solved, io_vars,
                   search_vars, first_run, solve_again>>

\* case None raising an exception in place of returning the trace.
StepStuck_raises ==
    /\ ~is_complete
    /\ solve_mv = None
    /\ raised' = "NotSolvableException"
    /\ solve_mv' = Unbound
    /\ UNCHANGED <<game_board, marked_board, found_moves, moves, marks,
                   is_full_solution, is_complete, is_fully_solved, io_vars,
                   search_vars, first_run, solve_again>>

\* The loop of solve(): match mv, case None.
StepStuck ==
    /\ ~is_complete
    /\ solve_mv = None
    /\ is_fully_solved' = [is_fully_solved EXCEPT !.solution = "False"]
    /\ is_complete' = TRUE
    /\ solve_mv' = Unbound
    /\ UNCHANGED <<game_board, marked_board, found_moves, moves, marks,
                   is_full_solution, raised, io_vars, search_vars, first_run, solve_again>>

\* case Finished() recording a delta for the Finished move.
StepFinished_with_delta ==
    /\ ~is_complete
    /\ solve_mv.class = "Finished"
    /\ moves' = Append(moves, solve_mv)
    /\ marks' = Append(marks, NoMarks)
    /\ is_full_solution' = TRUE
    /\ is_fully_solved' = [is_fully_solved EXCEPT !.solver = "True"]
    /\ is_complete' = TRUE
    /\ solve_mv' = Unbound
    /\ UNCHANGED <<game_board, marked_board, found_moves, raised, io_vars,
                   search_vars, first_run, solve_again>>

\* The loop of solve(): match mv, case Finished().
StepFinished ==
    /\ ~is_complete
    /\ solve_mv.class = "Finished"
    /\ moves' = Append(moves, solve_mv)
    /\ is_full_solution' = TRUE
    /\ is_fully_solved' = [is_fully_solved EXCEPT !.solver = "True"]
    /\ is_complete' = TRUE
    /\ solve_mv' = Unbound
    /\ UNCHANGED <<game_board, marked_board, found_moves, marks, raised, io_vars,
                   search_vars, first_run, solve_again>>

\* The last case of the loop without self.found_moves.add(mv).
StepApply_forgets_found ==
    /\ ~is_complete
    /\ solve_mv.class \notin {"Unbound", "NoneType", "Finished"}
    /\ LET new_marks == compute_marks(solve_mv, marked_board)
       IN  /\ marked_board' = add_marks(marked_board, new_marks)
           /\ marks' = Append(marks, new_marks)
    /\ moves' = Append(moves, solve_mv)
    /\ solve_mv' = Unbound
    /\ UNCHANGED <<game_board, found_moves, is_full_solution, is_complete,
                   is_fully_solved, raised, io_vars, search_vars, first_run, solve_again>>

\* The loop of solve(): match mv, any other move.
StepApply ==
    /\ ~is_complete
    /\ solve_mv.class \notin {"Unbound", "NoneType", "Finished"}
    /\ LET new_marks == compute_marks(solve_mv, marked_board)
       IN  /\ marked_board' = add_marks(marked_board, new_marks)
           /\ marks' = Append(marks, new_marks)
    /\ found_moves' = found_moves \cup {solve_mv}
    /\ moves' = Append(moves, solve_mv)
    /\ solve_mv' = Unbound
    /\ UNCHANGED <<game_board, is_full_solution, is_complete, is_fully_solved,
                   raised, io_vars, search_vars, first_run, solve_again>>

\* The caller serialises the solution solve() returned.
ToJson ==
    /\ is_complete
    /\ jsn = NoJson
    /\ LET r == Solution_to_json(moves)
       IN  /\ jsn' = r
           /\ raised' = IF IsRaise(r) THEN r.raised ELSE "none"
    /\ UNCHANGED <<solver_vars, decoded, search_vars, first_run, solve_again>>

\* The caller reads back the text to_json produced.
FromJson ==
    /\ "text" \in DOMAIN jsn
    /\ decoded = NoJson
    /\ LET r == Solution_from_json(jsn.text)
       IN  /\ decoded' = r
           /\ raised' = IF IsRaise(r) THEN r.raised ELSE "none"
    /\ UNCHANGED <<solver_vars, jsn, search_vars, first_run, solve_again>>

\* The caller reads a trace that came from elsewhere.
FromExternalJson ==
    /\ is_complete
    /\ jsn = NoJson
    /\ \E text \in ExternalJson :
          LET r == Solution_from_json(text)
          IN  /\ jsn' = [text |-> text, external |-> TRUE]
              /\ decoded' = r
              /\ raised' = IF IsRaise(r) THEN r.raised ELSE "none"
    /\ UNCHANGED <<solver_vars, search_vars, first_run, solve_again>>

\* The caller keeps the Solution that solve() returned and solves the same
\* input board again: Solver(game_board).solve().
Restart ==
    /\ is_complete
    /\ first_run = NoRun
    /\ jsn = NoJson
    /\ first_run' = [moves |-> moves, marks |-> marks,
                     is_full_solution |-> is_full_solution]
    /\ marked_board' = from_game_board(game_board)
    /\ found_moves' = {}
    /\ moves' = <<>>
    /\ marks' = <<>>
    /\ is_full_solution' = FALSE
    /\ is_complete' = FALSE
    /\ is_fully_solved' = [solution |-> "absent", solver |-> "absent"]
    /\ solve_mv' = Unbound
    /\ UNCHANGED <<game_board, raised, io_vars, search_vars, solve_again>>

\* A second call of solve() that runs the loop once more before it looks at
\* is_complete.
SolveAgain_reenters ==
    /\ is_complete
    /\ solve_again = NoRun
    /\ is_complete' = FALSE
    /\ solve_again' = [moves |-> moves, marks |-> marks,
                       is_full_solution |-> is_full_solution]
    /\ UNCHANGED <<game_board, marked_board, found_moves, moves, marks,
                   is_full_solution, is_fully_solved, solve_mv, raised, io_vars,
                   search_vars, first_run>>

\* solve() called again after it has returned: while not self.is_complete
\* is false at once, and self.solution is returned.
SolveAgain ==
    /\ is_complete
    /\ solve_again = NoRun
    /\ solve_again' = [moves |-> moves, marks |-> marks,
                       is_full_solution |-> is_full_solution]
    /\ UNCHANGED <<solver_vars, raised, io_vars, search_vars, first_run>>

Next ==
    \/ FindNextMove
    \/ StepStuck
    \/ StepFinished
    \/ StepApply
    \/ SolveAgain
    \/ ToJson
    \/ FromJson
    \/ FromExternalJson

Spec == Init /\ [][Next]_vars

\* Two solves of the same input board, one after the other.
NextRepeat ==
    \/ FindNextMove
    \/ StepStuck
    \/ StepFinished
    \/ StepApply
    \/ Restart

SpecRepeat == Init /\ [][NextRepeat]_vars

----------------------------------------------------------------------------
(* The search functions called directly, as the unit tests do: on a marked *)
(* board derived from an input board, with an already_found set of the     *)
(* caller's making.                                                        *)

\* The number of search results the caller applies to the board.
MaxApplied == 1

\* The number of search results the caller records in already_found.
MaxFound == 1

InitSearch ==
    /\ game_board \in BaseBoards
    /\ marked_board = from_game_board(game_board)
    /\ found_moves = {}
    /\ moves = <<>>
    /\ marks = <<>>
    /\ is_full_solution = FALSE
    /\ is_complete = FALSE
    /\ is_fully_solved = [solution |-> "absent", solver |-> "absent"]
    /\ solve_mv = Unbound
    /\ raised = "none"
    /\ jsn = NoJson
    /\ decoded = NoJson
    /\ sr_kind = "none"
    /\ sr_result = None
    /\ sr_marks = NoMarks
    /\ first_run = NoRun
    /\ solve_again = NoRun

\* The search and compute_marks calls with the marks written to the board
\* in place.
Search_in_place(cls) ==
    /\ sr_kind = "none"
    /\ sr_kind' = cls
    /\ LET move == search(cls, marked_board, found_moves)
           new_marks == IF move # None THEN compute_marks(move, marked_board)
                                       ELSE NoMarks
       IN  /\ sr_result' = move
           /\ sr_marks' = new_marks
           /\ marked_board' = add_marks(marked_board, new_marks)
    /\ UNCHANGED <<game_board, found_moves, moves, marks, is_full_solution,
                   is_complete, is_fully_solved, solve_mv, raised, io_vars,
                   first_run, solve_again>>

\* move = move_class.search(mb, already_found);
\* marks = move.compute_marks(mb) if move else None
Search(cls) ==
    /\ sr_kind = "none"
    /\ sr_kind' = cls
    /\ LET move == search(cls, marked_board, found_moves)
       IN  /\ sr_result' = move
           /\ sr_marks' = IF move # None THEN compute_marks(move, marked_board)
                                         ELSE NoMarks
    /\ UNCHANGED <<solver_vars, raised, io_vars, first_run, solve_again>>

\* The caller adds the move it was given to its already_found set.
Remember ==
    /\ sr_kind # "none"
    /\ sr_result # None
    /\ Cardinality(found_moves) < MaxFound
    /\ found_moves' = found_moves \cup {sr_result}
    /\ sr_kind' = "none"
    /\ sr_result' = None
    /\ sr_marks' = NoMarks
    /\ UNCHANGED <<game_board, marked_board, moves, marks, is_full_solution,
                   is_complete, is_fully_solved, solve_mv, raised, io_vars, first_run, solve_again>>

\* The caller applies the move it was given: mb.add_marks(marks).
ApplyResult ==
    /\ sr_kind # "none"
    /\ sr_result # None
    /\ Len(moves) < MaxApplied
    /\ marked_board' = add_marks(marked_board, sr_marks)
    /\ marks' = Append(marks, sr_marks)
    /\ moves' = Append(moves, sr_result)
    /\ sr_kind' = "none"
    /\ sr_result' = None
    /\ sr_marks' = NoMarks
    /\ UNCHANGED <<game_board, found_moves, is_full_solution, is_complete,
                   is_fully_solved, solve_mv, raised, io_vars, first_run, solve_again>>

\* The caller encodes the move it was given and decodes the encoding, with
\* to_dict/from_dict and with to_json/from_json.
RoundTrip ==
    /\ sr_kind # "none"
    /\ sr_result # None
    /\ jsn = NoJson
    /\ LET text == to_json(sr_result)
       IN  /\ jsn' = [move |-> sr_result, move_text |-> text]
           /\ decoded' = [via_dict |-> from_dict(sr_kind, to_dict(sr_result)),
                          via_json |-> IF IsRaise(text) THEN text
                                       ELSE from_json(sr_kind, text)]
           /\ raised' = IF IsRaise(text) THEN text.raised ELSE "none"
    /\ UNCHANGED <<solver_vars, search_vars, first_run, solve_again>>

\* The caller drops the result.
Discard ==
    /\ sr_kind # "none"
    /\ sr_kind' = "none"
    /\ sr_result' = None
    /\ sr_marks' = NoMarks
    /\ UNCHANGED <<solver_vars, raised, io_vars, first_run, solve_again>>

NextSearch ==
    \/ \E cls \in Range(MOVES_ORDER) : Search(cls)
    \/ Remember
    \/ ApplyResult
    \/ RoundTrip
    \/ Discard

SpecSearch == InitSearch /\ [][NextSearch]_vars

----------------------------------------------------------------------------
(* Properties.                                                             *)

\* The number of marks on a board.
MarkCount(board) == Cardinality({cn \in Coords \X (1..9) : cn[2] \in board[cn[1]]})

\* The marks of new_marks that a board does not have yet.
NewOn(board, new_marks) ==
    {<<c, n>> \in Coords \X (0..9) : c \in DOMAIN new_marks /\ n \in new_marks[c] \ board[c]}

\* A loop iteration applied a move in this step.
Applied == Len(marks') = Len(marks) + 1

\* The terminal states of solve().
Solved == is_complete /\ is_full_solution

Stuck == is_complete /\ ~is_full_solution

\* C1: solve() terminates, in Solved or Stuck, after at most 9 * 81 = 729
\* applied moves, because every move the loop applies puts on the marked
\* board at least one mark that was not there before: the number of marks
\* is a variant of the loop, it grows with every applied move and never
\* exceeds 729, and a loop iteration that applies nothing ends the loop.
C1_Termination ==
    /\ [][Applied => MarkCount(marked_board') > MarkCount(marked_board)]_vars
    /\ [][(solve_mv # Unbound /\ solve_mv' = Unbound /\ ~Applied)
            => (~is_complete /\ (Solved' \/ Stuck'))]_vars
    /\ [](Len(marks) <= MarkCount(marked_board) /\ MarkCount(marked_board) <= 729)

\* A solve that applied many moves, among them both singles, and ended.
C1_Witness ==
    /\ is_complete
    /\ Len(marks) >= 60
    /\ \E k \in 1..Len(moves) : moves[k].class = "NakedSingle"
    /\ \E k \in 1..Len(moves) : moves[k].class = "HiddenSingle"

\* C2: marks are monotone; in every step, every cell's mark set before the
\* step is a subset of its mark set after the step.
C2_MarksMonotone ==
    [][\A c \in Coords : marked_board[c] \subseteq marked_board'[c]]_vars

\* Two moves were applied, and the second one added marks to cells that had
\* marks before it.
C2_Witness ==
    /\ Len(marks) >= 2
    /\ \E c \in DOMAIN marks[2] :
          /\ marks[2][c] # {}
          /\ marks[2][c] # marked_board[c]

\* The first class of an order whose search returns a move, or None.
FirstIn(order, board, already_found) ==
    LET hits == {k \in 1..Len(order) : search(order[k], board, already_found) # None}
    IN  IF hits = {} THEN None ELSE search(order[Min(hits)], board, already_found)

\* The loop of solve() has just bound mv.
Found == solve_mv = Unbound /\ solve_mv' # Unbound

\* C3 as stated: the move kinds are tried in the order Finished, NakedSingle,
\* HiddenSingle, IntersectionTrickPointing, IntersectionTrickClaiming,
\* HiddenDouble, NakedDouble, and the first kind whose search returns a move
\* is the one applied (where both singles exist, the NakedSingle).
C3_StatedOrder ==
    [][Found => solve_mv' =
         FirstIn(<<"Finished", "NakedSingle", "HiddenSingle",
                   "IntersectionTrickPointing", "IntersectionTrickClaiming",
                   "HiddenDouble", "NakedDouble">>, marked_board, found_moves)]_vars

\* C3 amended: the move kinds are tried in the order Finished, HiddenSingle,
\* NakedSingle, IntersectionTrickPointing, IntersectionTrickClaiming,
\* HiddenDouble, NakedDouble, and the first kind whose search returns a move
\* is the one applied (where both singles exist, the HiddenSingle).
C3_CodeOrder ==
    [][Found => solve_mv' =
         FirstIn(<<"Finished", "HiddenSingle", "NakedSingle",
                   "IntersectionTrickPointing", "IntersectionTrickClaiming",
                   "HiddenDouble", "NakedDouble">>, marked_board, found_moves)]_vars

\* The loop bound mv to a HiddenSingle on a board that has a naked single
\* too.
C3_Witness ==
    /\ solve_mv.class = "HiddenSingle"
    /\ NakedSingle_search(marked_board, found_moves) # None

\* The six deductive techniques.
Techniques == Range(MOVES_ORDER) \ {"Finished"}

\* C4: for each of the six deductive techniques and every marked board,
\* search never returns a move whose application adds no new mark to that
\* board.
C4_NoNoOp ==
    (sr_kind \in Techniques /\ sr_result # None)
        => NewOn(marked_board, compute_marks(sr_result, marked_board)) # {}

\* The search for a pointing intersection passed over a configuration that
\* adds nothing and returned a later one: in box (0, 0) the digit 1 fits in
\* row 0 only, the rest of row 0 has the mark 1 already, and the move
\* returned is the one of column 0.
C4_Witness ==
    /\ sr_kind = "IntersectionTrickPointing"
    /\ sr_result = IntersectionTrickPointing(PyTuple(<<0, 0>>), COLUMN, 0, 1)
    /\ \A k \in 1..9 : LET c == iter_box(<<0, 0>>)[k]
                        IN  c[1] # 0 => 1 \in marked_board[c]
    /\ \E k \in 1..9 : LET c == iter_box(<<0, 0>>)[k]
                        IN  c[1] = 0 /\ 1 \notin marked_board[c]
    /\ all_empty(compute_marks(IntersectionTrickPointing(PyTuple(<<0, 0>>), ROW, 0, 1),
                               marked_board))

\* C5: when solve() ends in Solved, every one of the 81 cells of the
\* solver's game_board holds a digit of 1..9.
C5_BoardCompleted ==
    Solved => \A c \in Coords : game_board[c] \in 1..9

\* No class of MOVES_ORDER finds a move, Finished included.
NothingMatches ==
    \A k \in 1..Len(MOVES_ORDER) : search(MOVES_ORDER[k], marked_board, found_moves) = None

\* C6: when no move kind matches on a board that is not finished, the
\* iteration of solve() raises nothing, ends in Stuck, leaves the trace of
\* the moves applied so far as it is, and the full-solution flag is false.
C6_StuckNoRaise ==
    [][(NothingMatches /\ solve_mv # Unbound /\ solve_mv' = Unbound)
          => /\ raised' = "none"
             /\ Stuck'
             /\ ~is_full_solution'
             /\ moves' = moves
             /\ marks' = marks]_vars

\* solve() came to Stuck after it applied moves, and nothing was raised.
C6_Witness ==
    /\ Stuck
    /\ Len(moves) >= 1
    /\ Len(moves) = Len(marks)
    /\ raised = "none"
    /\ jsn = NoJson

\* C7: for every move kind and every already_found, search never returns a
\* move that is a member of already_found.
C7_NeverAlreadyFound ==
    sr_result # None => sr_result \notin found_moves

\* C8: for every move m, decoding the encoding of m gives a move equal to m.
C8_RoundTrip ==
    "move_text" \in DOMAIN jsn
        => /\ ~IsRaise(jsn.move_text)
           /\ ~IsRaise(decoded.via_json)
           /\ move_eq(decoded.via_json, jsn.move)

\* The tagged-record list of a trace: to_dict of each move.
TraceRecords(mvs) == [k \in 1..Len(mvs) |-> to_dict(mvs[k])]

\* C9: for every trace solve() produces, the loop of Solution.from_json over
\* the trace's tagged records resolves every name in MOVES_DICT and yields
\* the same moves.
C9_TraceDecodes ==
    is_complete
        => LET r == Solution_from_dicts(TraceRecords(moves))
           IN  ~IsRaise(r) /\ r.moves = moves

\* A record whose name is not a key of the registry.
UnknownKind(rec) == "name" \in DOMAIN rec /\ rec.name \notin DOMAIN MOVES_DICT

\* The records before the first one of an unknown kind are records the
\* registry's constructors accept.
DecodesUpToUnknown(text) ==
    LET first == Min({k \in 1..Len(text) : UnknownKind(text[k])})
    IN  \A j \in 1..(first - 1) :
           /\ "name" \in DOMAIN text[j]
           /\ ~IsRaise(from_json(MOVES_DICT[text[j].name], text[j]))

Searched == sr_kind = "none" /\ sr_kind' # "none"

Peers(c) ==
    {d \in Coords : \/ d[1] = c[1]
                    \/ d[2] = c[2]
                    \/ (d[1] \div 3 = c[1] \div 3 /\ d[2] \div 3 = c[2] \div 3)}

\* Full marks at the filled cells of a game board, and at every other cell
\* the digits of the filled cells that share a house with it.
Propagated(gb) ==
    [c \in Coords |->
        IF gb[c] # 0 THEN 1..9
        ELSE {gb[d] : d \in {e \in Peers(c) : gb[e] # 0}}]

\* The move the loop has just applied.
LastMove == moves'[Len(moves')]

\* C13: from_game_board gives every filled cell the full mark set and every
\* other cell exactly the digits of the filled cells in its row, column and
\* box; an applied NakedSingle or HiddenSingle saturates its cell and adds
\* its digit to the marks of every cell that shares a house with it, and
\* changes nothing else.
C13_PlacementPropagation ==
    /\ [](Len(marks) = 0 => marked_board = Propagated(game_board))
    /\ [][(Applied /\ LastMove.class \in {"NakedSingle", "HiddenSingle"})
            => \A d \in Coords :
                  marked_board'[d] =
                     IF d = LastMove.coords.items THEN 1..9
                     ELSE IF d \in Peers(LastMove.coords.items)
                          THEN marked_board[d] \cup {LastMove.number}
                          ELSE marked_board[d]]_vars

\* A NakedSingle was applied to a board derived from a game board with
\* filled cells, and its cell is saturated.
C13_Witness ==
    /\ \E c \in Coords : game_board[c] # 0
    /\ Len(marks) >= 1
    /\ moves[Len(marks)].class = "NakedSingle"
    /\ marked_board[moves[Len(marks)].coords.items] = 1..9

\* The cells filled in the input board and the cells of the applied
\* NakedSingle and HiddenSingle moves.
SolvedCells ==
    {c \in Coords : game_board[c] # 0}
        \cup {moves[k].coords.items :
                k \in {j \in 1..Len(moves) :
                          moves[j].class \in {"NakedSingle", "HiddenSingle"}}}

\* C14 as stated: in the initial marked board and after every solver step,
\* a cell has the full mark set if and only if it is solved (filled in the
\* input board, or the cell of an applied NakedSingle or HiddenSingle).
C14_SaturatedIffSolved ==
    \A c \in Coords : marked_board[c] = 1..9 <=> c \in SolvedCells

\* The complete grid the solver's moves fill in on Puzzle.
PuzzleSolution ==
    LET digits == <<9, 5, 3, 8, 1, 7, 2, 6, 4,  4, 6, 2, 3, 9, 5, 8, 7, 1,
                    1, 7, 8, 2, 4, 6, 3, 5, 9,  8, 1, 5, 7, 2, 4, 6, 9, 3,
                    3, 9, 6, 5, 8, 1, 7, 4, 2,  2, 4, 7, 6, 3, 9, 5, 1, 8,
                    5, 8, 9, 1, 7, 2, 4, 3, 6,  7, 2, 1, 4, 6, 3, 9, 8, 5,
                    6, 3, 4, 9, 5, 8, 1, 2, 7>>
    IN  [c \in Coords |-> digits[9 * c[1] + c[2] + 1]]

\* A complete grid in which every row, column and box holds nine different
\* digits.
ValidGrid(g) ==
    \A c \in Coords : \A d \in Peers(c) \ {c} : g[c] \in 1..9 /\ g[c] # g[d]

\* The game board is part of a complete valid grid (one of the two grids
\* above).
Completable ==
    \E g \in {FullGrid, PuzzleSolution} :
        /\ ValidGrid(g)
        /\ \A c \in Coords : game_board[c] # 0 => game_board[c] = g[c]

\* C14 amended: in the initial marked board and after every solver step,
\* every solved cell has the full mark set; on an input board that is part
\* of a complete valid grid, no other cell has the full mark set.
C14_SolvedIsSaturated ==
    /\ \A c \in SolvedCells : marked_board[c] = 1..9
    /\ Completable => \A c \in Coords : marked_board[c] = 1..9 => c \in SolvedCells

\* The solver came to the end of Puzzle: 25 cells filled in the input, 56
\* cells solved by singles, all of them saturated.
C14_Witness ==
    /\ game_board = Puzzle
    /\ is_complete
    /\ Cardinality(SolvedCells) = 81
    /\ \A c \in Coords : marked_board[c] = 1..9

\* The house types in scan order, and the house at a position of the scan
\* (boxes in row-major order).
ScanTypes == <<ROW, COLUMN, BOX>>

ScanIdx(t, i) == house_idx_iter(ScanTypes[t])[i]

ScanHouse(t, i) == house_iter(ScanTypes[t], ScanIdx(t, i))

\* Lexicographic order on tuples of integers of one length.
LexLess(x, y) ==
    \E k \in 1..Len(x) : x[k] < y[k] /\ \A j \in 1..(k - 1) : x[j] = y[j]

\* The first tuple of a non-empty set.
LexMin(S) == CHOOSE x \in S : \A y \in S \ {x} : LexLess(x, y)

\* The positions of the cells of a house where a digit is unmarked.
Unmarked(house, n) == {k \in 1..9 : n \notin marked_board[house[k]]}

\* The hidden doubles of the board as <<house type, house index, n1, n2>>
\* positions: both digits unmarked in the same two cells of the house and
\* nowhere else in it, and another digit unmarked in one of the two cells.
HiddenDoubles ==
    {x \in (1..3) \X (1..9) \X (1..9) \X (1..9) :
        /\ x[3] < x[4]
        /\ LET house == ScanHouse(x[1], x[2])
           IN  /\ Unmarked(house, x[3]) = Unmarked(house, x[4])
               /\ Cardinality(Unmarked(house, x[3])) = 2
               /\ \E k \in Unmarked(house, x[3]) :
                     marked_board[house[k]] \cup {x[3], x[4]} # 1..9}

\* The move that names a hidden double: the house, the two cells in house
\* order and the two digits.
HiddenDoubleMove(x) ==
    LET house == ScanHouse(x[1], x[2])
        cells == Unmarked(house, x[3])
        k1 == Min(cells)
        k2 == Min(cells \ {k1})
    IN  HiddenDouble(ScanTypes[x[1]], ScanIdx(x[1], x[2]),
                     PyTuple(<<PyTuple(house[k1]), PyTuple(house[k2])>>),
                     <<x[3], x[4]>>)

\* C15: HiddenDouble.search finds hidden doubles over every pair of digits
\* 1 <= n1 < n2 <= 9; if the board has a hidden double, search returns the
\* first one in the order rows, columns, boxes, house index, digit pair.
C15_FindsEveryPair ==
    (sr_kind = "HiddenDouble" /\ found_moves = {} /\ HiddenDoubles # {})
        => sr_result = HiddenDoubleMove(LexMin(HiddenDoubles))

\* The cells with exactly 8 marks, as <<row, column>>.
EightMarks == {c \in Coords : Cardinality(marked_board[c] \cap (1..9)) = 8}

\* C16: NakedSingle.search returns the first cell in row-major order whose
\* marks hold exactly 8 of the 9 digits, with the one missing digit, and
\* returns none if and only if no cell has exactly 8 marks.
C16_NakedSingleFirst ==
    sr_kind = "NakedSingle"
        => IF EightMarks = {} THEN sr_result = None
           ELSE LET c == LexMin(EightMarks)
                IN  /\ sr_result # None
                    /\ sr_result.class = "NakedSingle"
                    /\ sr_result.coords = PyTuple(c)
                    /\ (1..9) \ marked_board[c] = {sr_result.number}

\* The search returned a naked single on a board with several of them.
C16_Witness ==
    /\ sr_kind = "NakedSingle"
    /\ sr_result # None
    /\ Cardinality(EightMarks) >= 2

\* The matches of HiddenSingle as <<house type, house index, digit>>
\* positions: exactly 8 of the 9 cells of the house have the digit marked.
HiddenSingles ==
    {x \in (1..3) \X (1..9) \X (1..9) :
        Cardinality(Unmarked(ScanHouse(x[1], x[2]), x[3])) = 1}

\* C17: HiddenSingle.search returns the first match in the order house
\* type (rows, columns, boxes), house index, digit; the move names the one
\* cell left, the house type and the digit; none is returned if and only if
\* there is no match.
C17_HiddenSingleFirst ==
    sr_kind = "HiddenSingle"
        => IF HiddenSingles = {} THEN sr_result = None
           ELSE LET x == LexMin(HiddenSingles)
                    house == ScanHouse(x[1], x[2])
                    k == CHOOSE j \in 1..9 : x[3] \notin marked_board[house[j]]
                IN  sr_result = HiddenSingle(PyTuple(house[k]), ScanTypes[x[1]], x[3])

\* The search returned a hidden single on a board that has hidden singles
\* in two house types and several matches in all.
C17_Witness ==
    /\ sr_kind = "HiddenSingle"
    /\ sr_result # None
    /\ Cardinality(HiddenSingles) >= 3
    /\ Cardinality({x[1] : x \in HiddenSingles}) >= 2

\* The box at position b of the row-major scan of the boxes.
ScanBox(b) == <<(b - 1) \div 3, (b - 1) % 3>>

InBox(c, box) == c[1] \div 3 = box[1] /\ c[2] \div 3 = box[2]

\* The full row (t = 1) or column (t = 2) through local index h of a box.
PointingLine(box, t, h) ==
    IF t = 1 THEN {c \in Coords : c[1] = 3 * box[1] + h}
             ELSE {c \in Coords : c[2] = 3 * box[2] + h}

\* The local rows (columns) of the box where the digit is unmarked in some
\* cell of the box.
PointingLocal(box, t, n) ==
    {h \in 0..2 : \E c \in PointingLine(box, t, h) :
                      InBox(c, box) /\ n \notin marked_board[c]}

\* The cells of the line outside the box that lack the digit.
PointingOutside(box, t, h, n) ==
    {c \in PointingLine(box, t, h) : ~InBox(c, box) /\ n \notin marked_board[c]}

PointingMove(x) ==
    IntersectionTrickPointing(PyTuple(ScanBox(x[1])), ScanTypes[x[2]],
        CHOOSE h \in PointingLocal(ScanBox(x[1]), x[2], x[3]) : TRUE, x[3])

\* The instances of the pointing trick as <<box, house type, digit>>
\* positions, without those the caller has already been given.
Pointings ==
    {x \in (1..9) \X (1..2) \X (1..9) :
        /\ Cardinality(PointingLocal(ScanBox(x[1]), x[2], x[3])) = 1
        /\ PointingOutside(ScanBox(x[1]), x[2], PointingMove(x).house_idx, x[3]) # {}
        /\ PointingMove(x) \notin found_moves}

\* C18: IntersectionTrickPointing.search returns the first instance in the
\* order box (row-major), rows before columns, digit ascending, where the
\* digit is unmarked in the box in exactly one local row (column) and is
\* unmarked in some cell of that full row (column) outside the box; its
\* marks are exactly the digit at those outside cells; none is returned if
\* there is no instance.
C18_PointingFirst ==
    sr_kind = "IntersectionTrickPointing"
        => IF Pointings = {} THEN sr_result = None
           ELSE LET x == LexMin(Pointings)
                    outside == PointingOutside(ScanBox(x[1]), x[2],
                                   PointingMove(x).house_idx, x[3])
                IN  /\ sr_result = PointingMove(x)
                    /\ sr_marks = [c \in outside |-> {x[3]}]

\* The search returned a pointing move on a board with several instances,
\* called as the tests call it.
C18_Witness ==
    /\ sr_kind = "IntersectionTrickPointing"
    /\ sr_result # None
    /\ found_moves = {}
    /\ Cardinality(Pointings) >= 2
    /\ \E x \in Pointings : x[2] = 2

\* The third k of row (t = 1) or column (t = 2) i, and the box holding it.
ClaimingThird(t, i, k) ==
    IF t = 1 THEN {c \in Coords : c[1] = i /\ c[2] \div 3 = k}
             ELSE {c \in Coords : c[2] = i /\ c[1] \div 3 = k}

ClaimingBox(t, i, k) == IF t = 1 THEN <<i \div 3, k>> ELSE <<k, i \div 3>>

\* The thirds of the house where the digit is unmarked in some cell.
ClaimingThirds(t, i, n) ==
    {k \in 0..2 : \E c \in ClaimingThird(t, i, k) : n \notin marked_board[c]}

\* The cells of the box of third k outside the house that lack the digit.
ClaimingRest(t, i, k, n) ==
    {c \in Coords : /\ InBox(c, ClaimingBox(t, i, k))
                    /\ c \notin ClaimingThird(t, i, k)
                    /\ n \notin marked_board[c]}

ClaimingMove(x) ==
    IntersectionTrickClaiming(ScanTypes[x[1]], x[2] - 1,
        CHOOSE k \in ClaimingThirds(x[1], x[2] - 1, x[3]) : TRUE, x[3])

\* The instances of the claiming trick as <<house type, house index + 1,
\* digit>> positions, without those the caller has already been given.
Claimings ==
    {x \in (1..2) \X (1..9) \X (1..9) :
        /\ Cardinality(ClaimingThirds(x[1], x[2] - 1, x[3])) = 1
        /\ ClaimingRest(x[1], x[2] - 1, ClaimingMove(x).box_idx, x[3]) # {}
        /\ ClaimingMove(x) \notin found_moves}

\* C19: IntersectionTrickClaiming.search returns the first instance in the
\* order rows before columns, house index ascending, digit ascending, where
\* the digit is unmarked in exactly one box-aligned third of the house and
\* is unmarked in some cell of the box of that third outside the house; its
\* marks are exactly the digit at those cells; none is returned if there is
\* no instance.
C19_ClaimingFirst ==
    sr_kind = "IntersectionTrickClaiming"
        => IF Claimings = {} THEN sr_result = None
           ELSE LET x == LexMin(Claimings)
                    rest == ClaimingRest(x[1], x[2] - 1,
                                ClaimingMove(x).box_idx, x[3])
                IN  /\ sr_result = ClaimingMove(x)
                    /\ sr_marks = [c \in rest |-> {x[3]}]

\* The search returned a claiming move on a board with instances in rows
\* and in columns, called as the tests call it.
C19_Witness ==
    /\ sr_kind = "IntersectionTrickClaiming"
    /\ sr_result # None
    /\ found_moves = {}
    /\ \E x \in Claimings : x[1] = 1
    /\ \E x \in Claimings : x[1] = 2

\* The two digits a cell with 7 marks is left with.
Remaining(c) == (1..9) \ marked_board[c]

\* The other cells of the house that lack one of the two digits.
NakedDoubleOthers(house, a, b) ==
    {c \in Range(house) \ {house[a], house[b]} :
        Remaining(house[a]) \ marked_board[c] # {}}

NakedDoubleMove(x) ==
    LET house == ScanHouse(x[1], x[2])
    IN  NakedDouble(ScanTypes[x[1]], ScanIdx(x[1], x[2]),
            PyTuple(<<PyTuple(house[x[3]]), PyTuple(house[x[4]])>>),
            [n \in Remaining(house[x[3]]) |-> n])

\* The naked doubles of the board as <<house type, house index, first
\* cell, second cell>> positions, without those the caller has already
\* been given.
NakedDoubles ==
    {x \in (1..3) \X (1..9) \X (1..9) \X (1..9) :
        /\ x[3] # x[4]
        /\ LET house == ScanHouse(x[1], x[2])
           IN  /\ Cardinality(marked_board[house[x[3]]]) = 7
               /\ marked_board[house[x[3]]] = marked_board[house[x[4]]]
               /\ NakedDoubleOthers(house, x[3], x[4]) # {}
        /\ NakedDoubleMove(x) \notin found_moves}

\* C20: NakedDouble.search returns the first pair in the order rows,
\* columns, boxes, house index ascending, ordered pairs of distinct cells in
\* house order, where the two cells have the same 7 marks and another cell
\* of the house lacks one of the two remaining digits; the move names the
\* house, the pair in scan order and the two digits; its marks add, at every
\* other cell of the house, the digits of the pair that the cell lacks, and
\* nothing anywhere else; none is returned if there is no such pair.
C20_NakedDoubleFirst ==
    sr_kind = "NakedDouble"
        => IF NakedDoubles = {} THEN sr_result = None
           ELSE LET x == LexMin(NakedDoubles)
                    house == ScanHouse(x[1], x[2])
                    others == NakedDoubleOthers(house, x[3], x[4])
                IN  /\ sr_result = NakedDoubleMove(x)
                    /\ sr_result.numbers = Remaining(house[x[3]])
                    /\ {c \in DOMAIN sr_marks : sr_marks[c] # {}} = others
                    /\ \A c \in others :
                          sr_marks[c] = Remaining(house[x[3]]) \ marked_board[c]

\* The search returned a naked double on a board that has naked doubles in
\* two house types, called as the tests call it.
C20_Witness ==
    /\ sr_kind = "NakedDouble"
    /\ sr_result # None
    /\ found_moves = {}
    /\ Cardinality({x[1] : x \in NakedDoubles}) >= 2

\* Every cell of the input board holds a number.
AllFilled == \A c \in Coords : game_board[c] # 0

\* C21: on an input board with all 81 cells filled, Finished.search on the
\* derived marked board returns Finished, and solve() ends Solved with the
\* trace <<Finished>> and no mark deltas: before the end the trace is empty
\* and the only move the loop can hold is Finished.
C21_FilledBoardSolved ==
    AllFilled
        => /\ Finished_search(from_game_board(game_board), {}) = Finished
           /\ marks = <<>>
           /\ IF is_complete
                 THEN is_full_solution /\ moves = <<Finished>>
                 ELSE moves = <<>> /\ solve_mv \in {Unbound, Finished}

\* solve() has returned on a filled board that is not a valid grid.
C21_Witness ==
    /\ AllFilled
    /\ ~ValidGrid(game_board)
    /\ is_complete
    /\ moves = <<Finished>>

\* C22: on the empty board every search returns none at every point of the
\* solve, and solve() ends Stuck with an empty trace: no move and no delta is
\* ever recorded, the flag of a full solution stays false and the loop holds
\* no move.
C22_EmptyBoardStuck ==
    game_board = EmptyGameBoard
        => /\ \A k \in DOMAIN MOVES_ORDER :
                 search(MOVES_ORDER[k], marked_board, found_moves) = None
           /\ moves = <<>>
           /\ marks = <<>>
           /\ ~is_full_solution
           /\ solve_mv \in {Unbound, None}
           /\ marked_board = EmptyMarkedBoard

\* solve() has returned Stuck on the empty board.
C22_Witness ==
    /\ game_board = EmptyGameBoard
    /\ Stuck
    /\ moves = <<>>
    /\ solve_mv = Unbound

\* s is an initial part of t.
IsPrefix(s, t) == Len(s) <= Len(t) /\ \A k \in 1..Len(s) : s[k] = t[k]

\* The moves of a trace other than Finished.
NonFinished(mvs) == {k \in 1..Len(mvs) : mvs[k].class # "Finished"}

\* An iteration of the loop of solve() that found a move ends.
IterationWithMove == solve_mv \notin {Unbound, None} /\ solve_mv' = Unbound

\* C23: the trace is append-only and grows by exactly one move per solver
\* iteration that finds a move and by none otherwise; every move other than
\* Finished is recorded with its delta, the delta computed for that move on
\* the board as it was just before the move was applied, and there are as
\* many deltas as moves other than Finished.
C23_TraceAppendOnly ==
    /\ [](/\ Len(marks) = Cardinality(NonFinished(moves))
          /\ NonFinished(moves) = 1..Len(marks))
    /\ [][/\ IsPrefix(moves, moves')
          /\ IsPrefix(marks, marks')
          /\ IF IterationWithMove THEN moves' = Append(moves, solve_mv)
                                  ELSE moves' = moves
          /\ IF IterationWithMove /\ solve_mv.class # "Finished"
                THEN marks' = Append(marks, compute_marks(solve_mv, marked_board))
                ELSE marks' = marks]_vars

\* A solve has ended Solved with several moves and one delta for each move
\* but Finished.
C23_Witness ==
    /\ Solved
    /\ Len(moves) >= 3
    /\ Len(marks) = Len(moves) - 1
    /\ moves[Len(moves)] = Finished

\* The delta recorded by the step.
LastDelta == marks'[Len(marks')]

\* C24: a step that applies a move m with delta d leaves every cell with
\* its old marks united with d at that cell, leaves the cells absent from d
\* as they were, adds m to the found-set, stays Running and does not modify
\* the GameBoard.
C24_ApplyFrame ==
    [][Applied =>
          /\ \A c \in Coords :
                marked_board'[c] = IF c \in DOMAIN LastDelta
                                      THEN marked_board[c] \cup LastDelta[c]
                                      ELSE marked_board[c]
          /\ found_moves' = found_moves \cup {LastMove}
          /\ ~is_complete /\ ~is_complete'
          /\ is_full_solution' = is_full_solution
          /\ game_board' = game_board]_vars

\* Several moves were applied; the last one is in the found-set and its
\* delta names some cells and leaves others out.
C24_Witness ==
    /\ Len(marks) >= 2
    /\ ~is_complete
    /\ moves[Len(moves)] \in found_moves
    /\ Cardinality(found_moves) = Len(moves)
    /\ DOMAIN marks[Len(marks)] \notin {{}, Coords}
    /\ \E c \in DOMAIN marks[Len(marks)] : marks[Len(marks)][c] \subseteq marked_board[c]

\* Every cell of the marked board has the full mark set.
AllSaturated == \A c \in Coords : marked_board[c] = 1..9

\* The positions of Finished in a trace.
FinishedAt(mvs) == {k \in 1..Len(mvs) : mvs[k].class = "Finished"}

\* C25: solve() reports Solved if and only if every cell of the final
\* marked board has the full mark set; then Finished occurs in the trace
\* exactly once, as its last element; Finished is never in the found-set; in
\* Stuck the trace contains no Finished.
C25_SolvedIffSaturated ==
    /\ is_complete => (is_full_solution <=> AllSaturated)
    /\ Solved => FinishedAt(moves) = {Len(moves)} /\ Len(moves) >= 1
    /\ Stuck => FinishedAt(moves) = {}
    /\ Finished \notin found_moves
    /\ is_full_solution => is_complete

\* A solve that applied moves has ended Solved on a saturated board.
C25_Witness ==
    /\ Solved
    /\ AllSaturated
    /\ found_moves # {}
    /\ FinishedAt(moves) = {Len(moves)}

\* A solve that applied moves has ended Stuck on a board that is not
\* saturated.
C25_WitnessStuck ==
    /\ Stuck
    /\ ~AllSaturated
    /\ found_moves # {}

\* C26: the final move of every trace returned by solve() is Finished.
C26_LastMoveFinished ==
    is_complete => Len(moves) >= 1 /\ moves[Len(moves)] = Finished

\* Complete grids, row by row: completions of the input boards.
CompletionRows ==
    {
      <<1, 2, 3, 4, 5, 6, 7, 8, 9, 4, 5, 6, 7, 8, 9, 1, 2, 3, 7, 8, 9, 1, 2, 3, 4, 5, 6, 2, 3, 1, 6, 7, 4, 8, 9, 5, 8, 7, 5, 9, 1, 2, 3, 6, 4, 6, 9, 4, 5, 3, 8, 2, 1, 7, 3, 1, 7, 2, 6, 5, 9, 4, 8, 5, 4, 2, 8, 9, 7, 6, 3, 1, 9, 6, 8, 3, 4, 1, 5, 7, 2>>,
      <<9, 8, 7, 6, 5, 4, 3, 2, 1, 6, 5, 4, 3, 2, 1, 9, 8, 7, 3, 2, 1, 9, 8, 7, 6, 5, 4, 8, 7, 9, 4, 3, 6, 2, 1, 5, 2, 3, 5, 1, 9, 8, 7, 4, 6, 4, 1, 6, 5, 7, 2, 8, 9, 3, 7, 9, 3, 8, 4, 5, 1, 6, 2, 5, 6, 8, 2, 1, 3, 4, 7, 9, 1, 4, 2, 7, 6, 9, 5, 3, 8>>,
      <<2, 3, 6, 4, 1, 5, 7, 8, 9, 5, 8, 9, 6, 2, 7, 1, 3, 4, 1, 4, 7, 8, 3, 9, 2, 5, 6, 7, 5, 2, 3, 4, 1, 9, 6, 8, 9, 6, 8, 7, 5, 2, 3, 4, 1, 4, 1, 3, 9, 6, 8, 5, 7, 2, 6, 2, 4, 1, 7, 3, 8, 9, 5, 3, 9, 5, 2, 8, 4, 6, 1, 7, 8, 7, 1, 5, 9, 6, 4, 2, 3>>,
      <<2, 3, 6, 7, 8, 9, 4, 5, 1, 5, 8, 9, 1, 3, 4, 6, 7, 2, 1, 4, 7, 2, 5, 6, 8, 9, 3, 7, 5, 2, 9, 6, 8, 3, 1, 4, 9, 6, 8, 3, 4, 1, 7, 2, 5, 4, 1, 3, 5, 7, 2, 9, 8, 6, 6, 2, 4, 8, 9, 5, 1, 3, 7, 3, 9, 5, 6, 1, 7, 2, 4, 8, 8, 7, 1, 4, 2, 3, 5, 6, 9>>,
      <<1, 2, 3, 4, 5, 6, 7, 8, 9, 4, 5, 6, 7, 8, 9, 1, 2, 3, 7, 8, 9, 1, 2, 3, 4, 5, 6, 2, 3, 4, 5, 6, 7, 8, 9, 1, 5, 6, 7, 8, 9, 1, 2, 3, 4, 8, 9, 1, 2, 3, 4, 5, 6, 7, 3, 4, 5, 6, 7, 8, 9, 1, 2, 6, 7, 8, 9, 1, 2, 3, 4, 5, 9, 1, 2, 3, 4, 5, 6, 7, 8>>,
      <<9, 5, 3, 8, 1, 7, 2, 6, 4, 4, 6, 2, 3, 9, 5, 8, 7, 1, 1, 7, 8, 2, 4, 6, 3, 5, 9, 8, 1, 5, 7, 2, 4, 6, 9, 3, 3, 9, 6, 5, 8, 1, 7, 4, 2, 2, 4, 7, 6, 3, 9, 5, 1, 8, 5, 8, 9, 1, 7, 2, 4, 3, 6, 7, 2, 1, 4, 6, 3, 9, 8, 5, 6, 3, 4, 9, 5, 8, 1, 2, 7>>,
      <<1, 5, 3, 8, 9, 2, 7, 6, 4, 4, 6, 9, 3, 7, 1, 5, 2, 8, 7, 2, 8, 5, 4, 6, 3, 9, 1, 8, 1, 5, 2, 3, 4, 6, 7, 9, 3, 9, 6, 7, 8, 5, 4, 1, 2, 2, 4, 7, 6, 1, 9, 8, 5, 3, 5, 8, 4, 1, 2, 7, 9, 3, 6, 9, 7, 1, 4, 6, 3, 2, 8, 5, 6, 3, 2, 9, 5, 8, 1, 4, 7>>,
      <<1, 2, 3, 4, 5, 6, 7, 8, 9, 9, 8, 7, 3, 2, 1, 6, 5, 4, 6, 5, 4, 9, 8, 7, 3, 2, 1, 8, 7, 9, 6, 3, 5, 4, 1, 2, 4, 3, 2, 1, 7, 8, 9, 6, 5, 5, 6, 1, 2, 9, 4, 8, 7, 3, 7, 9, 5, 8, 4, 2, 1, 3, 6, 3, 1, 8, 5, 6, 9, 2, 4, 7, 2, 4, 6, 7, 1, 3, 5, 9, 8>>,
      <<1, 2, 3, 4, 5, 6, 7, 8, 9, 7, 8, 9, 1, 2, 3, 4, 5, 6, 4, 5, 6, 7, 8, 9, 1, 2, 3, 2, 3, 1, 6, 7, 4, 8, 9, 5, 8, 7, 5, 9, 1, 2, 3, 6, 4, 6, 9, 4, 5, 3, 8, 2, 1, 7, 3, 1, 7, 2, 6, 5, 9, 4, 8, 5, 4, 2, 8, 9, 7, 6, 3, 1, 9, 6, 8, 3, 4, 1, 5, 7, 2>>,
      <<1, 2, 3, 9, 8, 7, 6, 5, 4, 9, 8, 4, 1, 6, 5, 7, 3, 2, 7, 6, 5, 4, 3, 2, 1, 9, 8, 8, 5, 9, 7, 2, 6, 3, 4, 1, 4, 3, 2, 8, 9, 1, 5, 6, 7, 6, 7, 1, 5, 4, 3, 8, 2, 9, 5, 9, 8, 6, 7, 4, 2, 1, 3, 3, 4, 6, 2, 1, 8, 9, 7, 5, 2, 1, 7, 3, 5, 9, 4, 8, 6>>,
      <<1, 2, 3, 5, 4, 6, 7, 8, 9, 7, 8, 9, 1, 2, 3, 4, 5, 6, 4, 5, 6, 7, 8, 9, 1, 2, 3, 5, 7, 8, 6, 1, 2, 3, 9, 4, 3, 9, 1, 8, 5, 4, 6, 7, 2, 6, 4, 2, 9, 3, 7, 8, 1, 5, 2, 1, 4, 3, 7, 5, 9, 6, 8, 8, 6, 5, 4, 9, 1, 2, 3, 7, 9, 3, 7, 2, 6, 8, 5, 4, 1>>,
      <<1, 2, 3, 5, 6, 7, 8, 9, 4, 4, 8, 9, 1, 2, 3, 5, 6, 7, 5, 6, 7, 4, 8, 9, 1, 2, 3, 7, 4, 2, 9, 5, 8, 6, 3, 1, 9, 5, 8, 6, 3, 1, 7, 4, 2, 3, 1, 6, 2, 7, 4, 9, 8, 5, 8, 7, 4, 3, 9, 5, 2, 1, 6, 2, 9, 1, 7, 4, 6, 3, 5, 8, 6, 3, 5, 8, 1, 2, 4, 7, 9>>,
      <<1, 5, 6, 7, 8, 9, 2, 3, 4, 2, 8, 4, 1, 3, 5, 6, 7, 9, 3, 7, 9, 2, 4, 6, 1, 5, 8, 4, 1, 3, 8, 7, 2, 9, 6, 5, 8, 2, 5, 9, 6, 3, 4, 1, 7, 9, 6, 7, 5, 1, 4, 3, 8, 2, 5, 9, 1, 3, 2, 7, 8, 4, 6, 6, 3, 2, 4, 5, 8, 7, 9, 1, 7, 4, 8, 6, 9, 1, 5, 2, 3>>,
      <<1, 7, 6, 9, 8, 5, 2, 3, 4, 4, 8, 5, 3, 2, 1, 9, 7, 6, 3, 2, 9, 7, 6, 4, 8, 5, 1, 9, 6, 7, 5, 3, 8, 1, 4, 2, 8, 5, 4, 1, 7, 2, 6, 9, 3, 2, 1, 3, 6, 4, 9, 7, 8, 5, 5, 4, 2, 8, 9, 6, 3, 1, 7, 6, 3, 8, 4, 1, 7, 5, 2, 9, 7, 9, 1, 2, 5, 3, 4, 6, 8>>,
      <<1, 5, 6, 7, 8, 9, 2, 3, 4, 2, 8, 4, 3, 1, 5, 6, 7, 9, 3, 7, 9, 2, 4, 6, 1, 5, 8, 4, 1, 3, 6, 7, 8, 9, 2, 5, 8, 2, 7, 9, 5, 1, 3, 4, 6, 9, 6, 5, 4, 2, 3, 7, 8, 1, 5, 3, 2, 1, 6, 4, 8, 9, 7, 6, 9, 8, 5, 3, 7, 4, 1, 2, 7, 4, 1, 8, 9, 2, 5, 6, 3>>,
      <<1, 5, 6, 7, 8, 9, 2, 3, 4, 2, 8, 4, 1, 3, 5, 7, 9, 6, 3, 7, 9, 2, 4, 6, 1, 5, 8, 4, 1, 3, 8, 9, 2, 6, 7, 5, 8, 2, 5, 4, 6, 7, 9, 1, 3, 9, 6, 7, 5, 1, 3, 8, 4, 2, 5, 4, 1, 9, 2, 8, 3, 6, 7, 6, 9, 2, 3, 7, 4, 5, 8, 1, 7, 3, 8, 6, 5, 1, 4, 2, 9>>,
      <<1, 4, 5, 6, 7, 8, 2, 3, 9, 2, 8, 6, 3, 5, 9, 1, 4, 7, 3, 7, 9, 1, 2, 4, 5, 6, 8, 4, 3, 1, 7, 6, 5, 8, 9, 2, 8, 5, 2, 4, 9, 1, 3, 7, 6, 9, 6, 7, 2, 8, 3, 4, 1, 5, 5, 9, 3, 8, 1, 6, 7, 2, 4, 6, 2, 4, 5, 3, 7, 9, 8, 1, 7, 1, 8, 9, 4, 2, 6, 5, 3>>,
      <<2, 3, 4, 1, 8, 9, 5, 6, 7, 1, 5, 6, 2, 3, 7, 4, 8, 9, 7, 8, 9, 4, 5, 6, 1, 2, 3, 3, 4, 1, 8, 6, 2, 9, 7, 5, 9, 6, 7, 5, 4, 3, 2, 1, 8, 5, 2, 8, 9, 7, 1, 6, 3, 4, 4, 1, 3, 7, 2, 5, 8, 9, 6, 6, 9, 5, 3, 1, 8, 7, 4, 2, 8, 7, 2, 6, 9, 4, 3, 5, 1>>,
      <<2, 3, 4, 9, 8, 1, 5, 6, 7, 9, 8, 7, 6, 5, 2, 4, 3, 1, 6, 5, 1, 7, 4, 3, 9, 8, 2, 8, 6, 9, 4, 3, 7, 2, 1, 5, 7, 4, 5, 2, 1, 8, 6, 9, 3, 1, 2, 3, 5, 9, 6, 8, 7, 4, 5, 7, 2, 3, 6, 9, 1, 4, 8, 4, 9, 8, 1, 7, 5, 3, 2, 6, 3, 1, 6, 8, 2, 4, 7, 5, 9>>,
      <<1, 3, 4, 2, 8, 9, 5, 6, 7, 2, 5, 6, 1, 3, 7, 4, 8, 9, 7, 8, 9, 4, 5, 6, 1, 2, 3, 3, 4, 1, 8, 6, 2, 9, 7, 5, 9, 6, 7, 5, 4, 3, 2, 1, 8, 5, 2, 8, 9, 7, 1, 6, 3, 4, 4, 1, 3, 7, 2, 5, 8, 9, 6, 6, 9, 5, 3, 1, 8, 7, 4, 2, 8, 7, 2, 6, 9, 4, 3, 5, 1>>,
      <<2, 3, 4, 1, 8, 9, 5, 6, 7, 6, 7, 9, 4, 2, 5, 1, 3, 8, 1, 5, 8, 6, 3, 7, 2, 4, 9, 7, 6, 5, 2, 1, 4, 8, 9, 3, 9, 8, 2, 3, 5, 6, 4, 7, 1, 3, 4, 1, 7, 9, 8, 6, 2, 5, 4, 1, 7, 5, 6, 3, 9, 8, 2, 5, 9, 3, 8, 4, 2, 7, 1, 6, 8, 2, 6, 9, 7, 1, 3, 5, 4>>,
      <<2, 3, 4, 1, 8, 9, 5, 6, 7, 7, 8, 9, 2, 5, 6, 3, 4, 1, 1, 5, 6, 3, 4, 7, 8, 9, 2, 8, 4, 7, 9, 2, 5, 6, 1, 3, 9, 1, 5, 6, 3, 8, 7, 2, 4, 3, 6, 2, 4, 7, 1, 9, 8, 5, 4, 9, 8, 5, 1, 3, 2, 7, 6, 6, 2, 3, 7, 9, 4, 1, 5, 8, 5, 7, 1, 8, 6, 2, 4, 3, 9>>,
      <<2, 3, 4, 1, 7, 8, 5, 6, 9, 1, 5, 6, 2, 3, 9, 4, 7, 8, 7, 8, 9, 4, 5, 6, 1, 2, 3, 3, 4, 1, 7, 6, 2, 9, 8, 5, 8, 9, 7, 5, 4, 3, 2, 1, 6, 5, 6, 2, 9, 8, 1, 7, 3, 4, 4, 2, 3, 6, 1, 5, 8, 9, 7, 6, 1, 5, 8, 9, 7, 3, 4, 2, 9, 7, 8, 3, 2, 4, 6, 5, 1>>,
      <<3, 4, 5, 7, 8, 9, 1, 2, 6, 6, 1, 2, 3, 4, 5, 7, 8, 9, 7, 8, 9, 1, 2, 6, 3, 4, 5, 1, 2, 3, 4, 5, 7, 9, 6, 8, 4, 5, 7, 6, 9, 8, 2, 1, 3, 8, 9, 6, 2, 1, 3, 4, 5, 7, 2, 3, 8, 5, 7, 1, 6, 9, 4, 5, 6, 1, 9, 3, 4, 8, 7, 2, 9, 7, 4, 8, 6, 2, 5, 3, 1>>,
      <<3, 4, 5, 9, 8, 7, 6, 2, 1, 6, 2, 1, 5, 4, 3, 7, 8, 9, 9, 8, 7, 6, 2, 1, 5, 4, 3, 8, 7, 9, 2, 5, 6, 1, 3, 4, 2, 3, 4, 1, 7, 9, 8, 6, 5, 5, 1, 6, 4, 3, 8, 9, 7, 2, 7, 9, 3, 8, 1, 4, 2, 5, 6, 4, 6, 2, 7, 9, 5, 3, 1, 8, 1, 5, 8, 3, 6, 2, 4, 9, 7>>,
      <<1, 4, 5, 7, 8, 9, 2, 3, 6, 6, 2, 3, 1, 4, 5, 7, 8, 9, 7, 8, 9, 2, 3, 6, 1, 4, 5, 2, 3, 1, 4, 5, 7, 9, 6, 8, 4, 5, 7, 6, 9, 8, 3, 1, 2, 8, 9, 6, 3, 1, 2, 4, 5, 7, 3, 6, 2, 5, 7, 1, 8, 9, 4, 5, 1, 8, 9, 2, 4, 6, 7, 3, 9, 7, 4, 8, 6, 3, 5, 2, 1>>,
      <<3, 4, 5, 7, 8, 9, 1, 2, 6, 6, 1, 2, 4, 3, 5, 7, 8, 9, 7, 8, 9, 1, 2, 6, 3, 4, 5, 5, 3, 7, 2, 1, 4, 6, 9, 8, 9, 6, 8, 3, 5, 7, 2, 1, 4, 1, 2, 4, 6, 9, 8, 5, 3, 7, 8, 7, 1, 5, 4, 2, 9, 6, 3, 2, 9, 6, 8, 7, 3, 4, 5, 1, 4, 5, 3, 9, 6, 1, 8, 7, 2>>,
      <<3, 4, 1, 2, 5, 6, 8, 9, 7, 5, 6, 8, 4, 7, 9, 1, 2, 3, 2, 9, 7, 1, 3, 8, 4, 5, 6, 1, 5, 2, 6, 9, 3, 7, 4, 8, 4, 7, 3, 8, 2, 1, 5, 6, 9, 6, 8, 9, 5, 4, 7, 2, 3, 1, 8, 1, 4, 3, 6, 2, 9, 7, 5, 9, 2, 6, 7, 1, 5, 3, 8, 4, 7, 3, 5, 9, 8, 4, 6, 1, 2>>,
      <<3, 4, 2, 6, 5, 1, 8, 9, 7, 5, 6, 9, 8, 7, 2, 1, 4, 3, 1, 8, 7, 9, 4, 3, 6, 5, 2, 6, 9, 8, 1, 3, 5, 2, 7, 4, 4, 7, 5, 2, 6, 8, 9, 3, 1, 2, 1, 3, 7, 9, 4, 5, 8, 6, 8, 5, 6, 4, 1, 7, 3, 2, 9, 9, 2, 4, 3, 8, 6, 7, 1, 5, 7, 3, 1, 5, 2, 9, 4, 6, 8>>,
      <<1, 4, 2, 3, 5, 6, 8, 9, 7, 5, 6, 8, 4, 7, 9, 1, 2, 3, 3, 9, 7, 1, 2, 8, 4, 5, 6, 2, 1, 4, 8, 6, 3, 5, 7, 9, 6, 3, 5, 7, 9, 1, 2, 4, 8, 7, 8, 9, 2, 4, 5, 3, 6, 1, 8, 5, 6, 9, 1, 4, 7, 3, 2, 9, 2, 1, 5, 3, 7, 6, 8, 4, 4, 7, 3, 6, 8, 2, 9, 1, 5>>,
      <<3, 4, 1, 5, 2, 6, 8, 9, 7, 5, 6, 8, 4, 7, 9, 1, 2, 3, 2, 9, 7, 1, 3, 8, 4, 5, 6, 1, 7, 5, 8, 9, 2, 6, 3, 4, 4, 3, 2, 6, 5, 1, 9, 7, 8, 6, 8, 9, 3, 4, 7, 2, 1, 5, 8, 1, 3, 2, 6, 5, 7, 4, 9, 9, 2, 4, 7, 8, 3, 5, 6, 1, 7, 5, 6, 9, 1, 4, 3, 8, 2>>,
      <<3, 4, 1, 2, 5, 6, 8, 9, 7, 5, 6, 8, 4, 7, 9, 1, 2, 3, 2, 9, 7, 1, 3, 8, 4, 5, 6, 1, 5, 2, 9, 6, 3, 7, 8, 4, 4, 7, 3, 8, 2, 1, 9, 6, 5, 6, 8, 9, 5, 4, 7, 2, 3, 1, 8, 1, 5, 3, 9, 4, 6, 7, 2, 9, 2, 6, 7, 1, 5, 3, 4, 8, 7, 3, 4, 6, 8, 2, 5, 1, 9>>,
      <<3, 4, 1, 2, 6, 7, 8, 9, 5, 5, 6, 8, 3, 4, 9, 1, 2, 7, 2, 9, 7, 1, 5, 8, 3, 4, 6, 1, 3, 2, 6, 7, 4, 9, 5, 8, 6, 5, 4, 8, 9, 1, 2, 7, 3, 7, 8, 9, 5, 2, 3, 6, 1, 4, 8, 1, 5, 4, 3, 2, 7, 6, 9, 9, 2, 6, 7, 8, 5, 4, 3, 1, 4, 7, 3, 9, 1, 6, 5, 8, 2>>,
      <<3, 4, 2, 6, 5, 1, 8, 9, 7, 5, 6, 9, 8, 7, 3, 1, 2, 4, 1, 8, 7, 9, 4, 2, 6, 5, 3, 6, 9, 8, 1, 3, 5, 4, 7, 2, 4, 7, 5, 2, 6, 8, 9, 3, 1, 2, 3, 1, 7, 9, 4, 5, 8, 6, 8, 1, 3, 4, 2, 9, 7, 6, 5, 9, 2, 6, 5, 1, 7, 3, 4, 8, 7, 5, 4, 3, 8, 6, 2, 1, 9>>,
      <<1, 4, 2, 3, 5, 6, 8, 9, 7, 5, 6, 8, 4, 7, 9, 1, 2, 3, 3, 9, 7, 1, 2, 8, 4, 5, 6, 2, 3, 1, 8, 6, 4, 5, 7, 9, 6, 5, 4, 7, 9, 1, 2, 3, 8, 7, 8, 9, 2, 3, 5, 6, 1, 4, 8, 1, 3, 5, 4, 7, 9, 6, 2, 9, 2, 5, 6, 8, 3, 7, 4, 1, 4, 7, 6, 9, 1, 2, 3, 8, 5>>,
      <<3, 4, 1, 2, 6, 7, 8, 9, 5, 5, 6, 8, 3, 4, 9, 1, 2, 7, 2, 9, 7, 1, 5, 8, 3, 4, 6, 1, 5, 6, 7, 2, 3, 9, 8, 4, 4, 3, 2, 8, 9, 6, 7, 5, 1, 7, 8, 9, 5, 1, 4, 2, 6, 3, 8, 1, 4, 9, 3, 5, 6, 7, 2, 9, 2, 5, 6, 7, 1, 4, 3, 8, 6, 7, 3, 4, 8, 2, 5, 1, 9>>,
      <<1, 6, 2, 7, 8, 9, 3, 4, 5, 4, 5, 9, 1, 2, 3, 6, 7, 8, 3, 7, 8, 4, 5, 6, 1, 2, 9, 2, 3, 1, 5, 6, 7, 8, 9, 4, 7, 4, 5, 8, 9, 1, 2, 3, 6, 9, 8, 6, 2, 3, 4, 5, 1, 7, 6, 1, 3, 9, 4, 5, 7, 8, 2, 5, 2, 4, 3, 7, 8, 9, 6, 1, 8, 9, 7, 6, 1, 2, 4, 5, 3>>,
      <<2, 9, 1, 8, 7, 6, 3, 4, 5, 5, 4, 3, 1, 2, 9, 8, 7, 6, 8, 7, 6, 5, 4, 3, 9, 2, 1, 4, 8, 9, 6, 5, 2, 1, 3, 7, 3, 6, 7, 9, 8, 1, 4, 5, 2, 1, 5, 2, 7, 3, 4, 6, 9, 8, 7, 1, 5, 4, 9, 8, 2, 6, 3, 9, 2, 8, 3, 6, 7, 5, 1, 4, 6, 3, 4, 2, 1, 5, 7, 8, 9>>,
      <<1, 6, 2, 7, 8, 9, 3, 4, 5, 3, 5, 9, 1, 2, 4, 6, 7, 8, 4, 7, 8, 5, 3, 6, 1, 2, 9, 2, 3, 5, 8, 6, 1, 4, 9, 7, 7, 4, 1, 9, 5, 3, 2, 8, 6, 9, 8, 6, 2, 4, 7, 5, 1, 3, 8, 1, 3, 4, 7, 5, 9, 6, 2, 5, 2, 4, 6, 9, 8, 7, 3, 1, 6, 9, 7, 3, 1, 2, 8, 5, 4>>,
      <<1, 6, 2, 7, 8, 9, 3, 4, 5, 4, 5, 9, 1, 2, 3, 7, 8, 6, 3, 7, 8, 4, 5, 6, 2, 9, 1, 2, 4, 1, 8, 6, 7, 9, 5, 3, 5, 8, 3, 2, 9, 1, 4, 6, 7, 6, 9, 7, 3, 4, 5, 8, 1, 2, 8, 1, 5, 9, 3, 2, 6, 7, 4, 9, 2, 6, 5, 7, 4, 1, 3, 8, 7, 3, 4, 6, 1, 8, 5, 2, 9>>,
      <<1, 5, 2, 6, 7, 8, 3, 4, 9, 4, 8, 9, 1, 2, 3, 5, 6, 7, 3, 6, 7, 4, 5, 9, 1, 2, 8, 2, 3, 1, 7, 6, 5, 8, 9, 4, 8, 4, 5, 9, 1, 2, 6, 7, 3, 9, 7, 6, 3, 8, 4, 2, 1, 5, 5, 1, 4, 8, 9, 6, 7, 3, 2, 6, 2, 3, 5, 4, 7, 9, 8, 1, 7, 9, 8, 2, 3, 1, 4, 5, 6>>,
      <<5, 6, 7, 3, 4, 8, 1, 2, 9, 8, 3, 1, 2, 7, 9, 4, 5, 6, 9, 2, 4, 1, 5, 6, 3, 7, 8, 3, 1, 2, 7, 6, 4, 9, 8, 5, 4, 7, 5, 8, 9, 1, 2, 6, 3, 6, 9, 8, 5, 2, 3, 7, 1, 4, 1, 5, 6, 4, 3, 2, 8, 9, 7, 2, 4, 9, 6, 8, 7, 5, 3, 1, 7, 8, 3, 9, 1, 5, 6, 4, 2>>,
      <<9, 8, 7, 6, 5, 4, 1, 2, 3, 6, 3, 2, 9, 8, 1, 7, 5, 4, 5, 1, 4, 7, 3, 2, 9, 8, 6, 8, 9, 5, 3, 4, 7, 6, 1, 2, 7, 6, 3, 2, 1, 8, 5, 4, 9, 4, 2, 1, 5, 9, 6, 8, 3, 7, 1, 7, 9, 8, 2, 3, 4, 6, 5, 2, 5, 8, 4, 6, 9, 3, 7, 1, 3, 4, 6, 1, 7, 5, 2, 9, 8>>,
      <<5, 6, 7, 3, 4, 8, 1, 2, 9, 8, 3, 1, 2, 7, 9, 4, 5, 6, 9, 2, 4, 5, 1, 6, 3, 7, 8, 3, 1, 5, 6, 8, 2, 7, 9, 4, 4, 7, 2, 9, 5, 1, 6, 8, 3, 6, 9, 8, 4, 3, 7, 2, 1, 5, 1, 8, 3, 7, 6, 5, 9, 4, 2, 2, 5, 6, 1, 9, 4, 8, 3, 7, 7, 4, 9, 8, 2, 3, 5, 6, 1>>,
      <<5, 6, 7, 4, 8, 9, 1, 2, 3, 8, 3, 1, 2, 5, 6, 7, 9, 4, 9, 2, 4, 1, 3, 7, 5, 6, 8, 3, 7, 5, 6, 9, 8, 2, 4, 1, 4, 9, 2, 3, 1, 5, 8, 7, 6, 6, 1, 8, 7, 4, 2, 9, 3, 5, 1, 5, 6, 9, 7, 3, 4, 8, 2, 2, 8, 9, 5, 6, 4, 3, 1, 7, 7, 4, 3, 8, 2, 1, 6, 5, 9>>,
      <<8, 1, 9, 2, 6, 7, 3, 4, 5, 3, 4, 5, 8, 9, 1, 2, 6, 7, 2, 6, 7, 3, 4, 5, 1, 8, 9, 6, 2, 1, 4, 5, 8, 9, 7, 3, 7, 3, 4, 6, 1, 9, 5, 2, 8, 9, 5, 8, 7, 2, 3, 4, 1, 6, 1, 8, 2, 9, 3, 6, 7, 5, 4, 4, 9, 6, 5, 7, 2, 8, 3, 1, 5, 7, 3, 1, 8, 4, 6, 9, 2>>,
      <<9, 7, 8, 6, 2, 1, 3, 4, 5, 5, 4, 3, 8, 9, 7, 6, 2, 1, 6, 2, 1, 5, 4, 3, 9, 8, 7, 8, 6, 9, 2, 7, 5, 1, 3, 4, 2, 5, 7, 3, 1, 4, 8, 9, 6, 1, 3, 4, 9, 8, 6, 7, 5, 2, 7, 8, 5, 4, 6, 9, 2, 1, 3, 4, 9, 6, 1, 3, 2, 5, 7, 8, 3, 1, 2, 7, 5, 8, 4, 6, 9>>,
      <<8, 1, 9, 2, 6, 7, 3, 4, 5, 4, 5, 7, 8, 9, 3, 1, 2, 6, 2, 3, 6, 4, 1, 5, 7, 8, 9, 5, 2, 3, 7, 4, 8, 6, 9, 1, 7, 4, 1, 6, 5, 9, 2, 3, 8, 9, 6, 8, 3, 2, 1, 4, 5, 7, 1, 8, 2, 5, 3, 6, 9, 7, 4, 3, 9, 5, 1, 7, 4, 8, 6, 2, 6, 7, 4, 9, 8, 2, 5, 1, 3>>,
      <<8, 1, 9, 2, 6, 7, 3, 4, 5, 3, 4, 5, 8, 9, 1, 2, 6, 7, 2, 6, 7, 3, 4, 5, 8, 9, 1, 6, 2, 1, 4, 5, 8, 9, 7, 3, 7, 3, 4, 6, 1, 9, 5, 2, 8, 9, 5, 8, 7, 2, 3, 4, 1, 6, 1, 8, 2, 9, 3, 6, 7, 5, 4, 5, 9, 3, 1, 7, 4, 6, 8, 2, 4, 7, 6, 5, 8, 2, 1, 3, 9>>,
      <<7, 1, 8, 2, 5, 6, 3, 4, 9, 3, 4, 6, 8, 9, 1, 2, 5, 7, 5, 2, 9, 3, 4, 7, 1, 6, 8, 4, 3, 1, 5, 6, 8, 7, 9, 2, 8, 5, 2, 9, 7, 3, 4, 1, 6, 9, 6, 7, 1, 2, 4, 5, 8, 3, 2, 8, 3, 6, 1, 5, 9, 7, 4, 1, 9, 4, 7, 8, 2, 6, 3, 5, 6, 7, 5, 4, 3, 9, 8, 2, 1>>
    }

\* The complete valid grids the input boards are compared with.
Completions ==
    {g \in {[c \in Coords |-> digits[9 * c[1] + c[2] + 1]] : digits \in CompletionRows} :
        ValidGrid(g)}

\* The grid agrees with the filled cells of the input board.
Agrees(S) == \A c \in Coords : game_board[c] # 0 => game_board[c] = S[c]

\* The applied moves that place a number.
Placements ==
    {k \in 1..Len(moves) : moves[k].class \in {"NakedSingle", "HiddenSingle"}}

\* C27: for any complete valid grid S that agrees with the filled cells of
\* the input board, at every step of solve() each applied NakedSingle or
\* HiddenSingle places the digit of S at its cell, and no cell that is
\* neither given nor placed has the digit of S among its marks.
C27_Soundness ==
    \A S \in Completions :
        Agrees(S) =>
            /\ \A k \in Placements : moves[k].number = S[moves[k].coords.items]
            /\ \A c \in Coords \ SolvedCells : S[c] \notin marked_board[c]

\* On an input board with two different completions the solver has applied
\* a placing move and a move of another kind.
C27_Witness ==
    /\ \E S, T \in Completions : S # T /\ Agrees(S) /\ Agrees(T)
    /\ Placements # {}
    /\ \E k \in 1..Len(moves) :
          moves[k].class \notin {"NakedSingle", "HiddenSingle", "Finished"}

\* C28: at every point of a solve, applying a move that is already in
\* found_moves would add no mark that is not already present; every search
\* returns with the found-set what it returns without it, so no instance
\* that would make progress is skipped and solve() never ends Stuck because
\* of the found-set.
C28_FilterNeverSuppresses ==
    /\ \A m \in found_moves :
          add_marks(marked_board, compute_marks(m, marked_board)) = marked_board
    /\ (found_moves # {} /\ ~is_complete) =>
          \A k \in DOMAIN MOVES_ORDER :
              search(MOVES_ORDER[k], marked_board, found_moves)
                  = search(MOVES_ORDER[k], marked_board, {})
    /\ Stuck => find_next_move(marked_board, {}) = None

\* A solve has ended Stuck with moves of the filtered kinds in the
\* found-set.
C28_Witness ==
    /\ Stuck
    /\ Cardinality(found_moves) >= 2
    /\ \E m \in found_moves : m.class \notin {"NakedSingle", "HiddenSingle"}

\* The input board repeats no digit within a row, column or box.
NoRepeat ==
    \A c \in Coords : \A d \in Peers(c) \ {c} :
        game_board[c] # 0 => game_board[c] # game_board[d]

\* C29: in a solve whose input board repeats no digit within a house, every
\* applied NakedSingle or HiddenSingle targets a cell that is neither given
\* nor the target of an earlier placing move, and the digit it places is
\* held by no given or earlier-placed cell of the same row, column or box.
C29_WriteOnce ==
    NoRepeat =>
        \A k \in Placements :
            LET c == moves[k].coords.items
                n == moves[k].number
                earlier == {j \in Placements : j < k}
            IN  /\ game_board[c] = 0
                /\ \A j \in earlier : moves[j].coords.items # c
                /\ \A d \in Peers(c) \ {c} : game_board[d] # n
                /\ \A j \in earlier :
                      moves[j].coords.items \in Peers(c) => moves[j].number # n

\* On an input board without repeats the solver has placed numbers by both
\* kinds of single, two of them in the same house.
C29_Witness ==
    /\ NoRepeat
    /\ \E k \in Placements : moves[k].class = "NakedSingle"
    /\ \E k \in Placements : moves[k].class = "HiddenSingle"
    /\ \E j, k \in Placements :
          j < k /\ moves[j].coords.items \in Peers(moves[k].coords.items)

\* C30: Solved and Stuck are terminal.  Once solve() has returned no step
\* changes the marked board, the found-set, the trace, the completion flags
\* or the game board, and a second call of solve() returns the same trace
\* with the same flag.
C30_Terminal ==
    /\ [][is_complete => UNCHANGED <<marked_board, found_moves, moves, marks,
                                      is_full_solution, is_complete,
                                      is_fully_solved, game_board>>]_vars
    /\ [](solve_again # NoRun =>
             /\ is_complete
             /\ solve_again.moves = moves
             /\ solve_again.marks = marks
             /\ solve_again.is_full_solution = is_full_solution)

\* solve() was called again after a solve that ended Solved with applied
\* moves.
C30_Witness ==
    /\ solve_again # NoRun
    /\ Solved
    /\ Len(solve_again.moves) >= 2

\* solve() was called again after a solve that ended Stuck with applied
\* moves.
C30_WitnessStuck ==
    /\ solve_again # NoRun
    /\ Stuck
    /\ Len(solve_again.moves) >= 1

====
